---- MODULE Spec2Model ----
(***************************************************************************)
(* StockAIvo: the multi-tier price-series resolver (get_stock_data), the   *)
(* write-behind buffer (_append_to_pending_save) and the background        *)
(* flusher (DatabaseWriter.persist_pending_data).                          *)
(*                                                                         *)
(* One ticker is modelled; a key of the general cache, of the PENDING_SAVE *)
(* buffer and of the durable store is therefore a period.  A DataFrame is  *)
(* a sequence of rows [date, val]; an absent Redis key, None and an empty  *)
(* DataFrame are all the empty sequence (the code tests                    *)
(* "is not None and not empty" everywhere and save_to_redis refuses an     *)
(* empty frame).  Dates are day numbers; day 1 is a Monday.                *)
(*                                                                         *)
(* Scheduling: every get_stock_data call is a coroutine of the one asyncio *)
(* event loop of the uvicorn process, so two calls interleave only at an   *)
(* await (the provider fetch); the variable loop holds the call that is in *)
(* the middle of synchronous code.  persist_pending_data runs in another   *)
(* thread (APScheduler BackgroundScheduler, or the threadpool of the       *)
(* /persist-data background task) and interleaves with the calls at every *)
(* Redis or database operation.  A Redis operation on the general cache    *)
(* commutes with every step of the flusher, which never touches that       *)
(* cache, so it is taken together with the next buffer or database         *)
(* operation of the same call.                                             *)
(***************************************************************************)
EXTENDS Integers, Sequences, FiniteSets, TLC

\* ------------------------------------------------------------- variables
VARIABLES
  cache,      \* general_cache:{ticker}:{period}  -> DataFrame
  buffer,     \* pending_save:{ticker}:{period}   -> DataFrame
  store,      \* stock_prices_{period} rows of the ticker, ordered by date
  provDates,  \* the dates the provider has a row for
  loop,       \* the call running synchronous code on the event loop, or 0
  rs,         \* the local variables of each get_stock_data call
  res,        \* what each call returned last
  calls,      \* calls started so far
  fl,         \* the local variables of persist_pending_data
  obs,        \* history of each call: what it asked, what it was given
  appended,   \* history: point-keys ever written to the buffer, per key
  since,      \* history: point-keys written to the buffer since its key was last deleted
  kept,       \* history: provider point-keys written to the cache since its key last expired
  clock,      \* the wall clock (US Eastern), the holidays of the exchange calendar and
              \* the last answers of get_market_aware_current_date
  limiter     \* time.time(), the _request_times of the news provider, the price fetches begun
              \* of late, and the attempts of the price fetch in progress

\* ---------------------------------------------------------------- bounds
MaxDate == 4
MaxCalls == 2
MaxKey == 2
MaxTime == 5
MaxWeek == 2
MaxTick == 2

\* ------------------------------------------------------ program constants
DailyDefaultDays == 40
WeeklyDefaultDays == 200
TICKERTICK_RATE_LIMIT == 10
TICKERTICK_RATE_LIMIT_WINDOW == 60
AKSHARE_RETRY_ATTEMPTS == 3

Dates == 1..MaxDate
Resolvers == {1, 2}
Periods == {"daily", "hourly"}
NoDate == 0
EmptyDF == <<>>

\* ------------------------------------------------------------- calendar
\* NYSE sessions of the modelled calendar: MaxWeek weeks that begin with
\* day 1, Monday to Friday, less the holidays of the run.  The resolver's
\* dates (Dates) are the first days of it.
Holidays == clock.holidays
Calendar == 1..(7 * MaxWeek)
weekday(d) == (d - 1) % 7
IsSession(d) == d \in Calendar /\ weekday(d) < 5 /\ d \notin Holidays
schedule(s, e) == {d \in Calendar : IsSession(d) /\ s <= d /\ d <= e}

RECURSIVE sorted(_)
sorted(S) ==
  IF S = {} THEN <<>>
  ELSE LET m == CHOOSE x \in S : \A y \in S : x <= y
       IN <<m>> \o sorted(S \ {m})

\* ----------------------------------------------------------- DataFrames
DateSet(df) == {df[i].date : i \in 1..Len(df)}
SeqToSet(s) == {s[i] : i \in 1..Len(s)}

RECURSIVE drop_duplicates_from(_, _)
drop_duplicates_from(df, seen) ==
  IF df = <<>> THEN <<>>
  ELSE IF Head(df).date \in seen
       THEN drop_duplicates_from(Tail(df), seen)
       ELSE <<Head(df)>> \o drop_duplicates_from(Tail(df), seen \cup {Head(df).date})

\* DataFrame.drop_duplicates(subset=[date_col]): keep='first' is the default
drop_duplicates(df) == drop_duplicates_from(df, {})

InsertRow(df, row) ==
  LET k == Cardinality({i \in 1..Len(df) : df[i].date <= row.date})
  IN SubSeq(df, 1, k) \o <<row>> \o SubSeq(df, k + 1, Len(df))

RECURSIVE sort_values(_)
sort_values(df) ==
  IF df = <<>> THEN <<>>
  ELSE InsertRow(sort_values(SubSeq(df, 1, Len(df) - 1)), df[Len(df)])

\* a merge that leaves the rows in the order of arrival
concat_dedup_unsorted(a, b) == drop_duplicates(a \o b)

\* pd.concat([a, b]).drop_duplicates(subset=[date_col]).sort_values(by=date_col)
concat_dedup_sort(a, b) == sort_values(drop_duplicates(a \o b))

RECURSIVE concat(_)
concat(frames) == IF frames = <<>> THEN <<>> ELSE Head(frames) \o concat(Tail(frames))

SelectRows(df, lo, hi, hasLo, hasHi) ==
  SelectSeq(df, LAMBDA row : (hasLo => row.date >= lo) /\ (hasHi => row.date <= hi))

filter_dataframe_by_date(df, has, s, e) ==
  IF df = <<>> \/ ~has THEN df ELSE SelectRows(df, s, e, TRUE, TRUE)

\* ------------------------------------------------- required point set
\* the Monday of the week of a day
week_monday(d) == d - weekday(d)

\* lines 680-719: of the sessions in [s, e], the last one of each week
weekly_end_dates(s, e) ==
  {d \in schedule(s, e) :
     \A x \in schedule(s, e) : week_monday(x) = week_monday(d) => x <= d}

\* pd.date_range(start, end, freq): every Monday-to-Friday date ('B') or every
\* Friday ('W-FRI') of the range, whatever the exchange calendar says
date_range(s, e, freq) ==
  {d \in Calendar : /\ s <= d /\ d <= e
                    /\ IF freq = "B" THEN weekday(d) < 5 ELSE weekday(d) = 4}

\* lines 722-736 with no fallback: the failure of the calendar leaves no date
required_dates_without_fallback(period, s, e) == <<>>

\* lines 722-736: the dates taken when the calendar backend raised
required_dates_fallback(period, s, e) ==
  IF period = "daily" THEN sorted(date_range(s, e, "B"))
  ELSE IF period = "weekly" THEN sorted(date_range(s, e, "W-FRI"))
  ELSE <<>>

\* cal_ok: the calendar backend answered
get_required_dates(period, has, s, e, cal_ok) ==
  IF ~has THEN <<>>
  ELSE IF s > e THEN <<>>
  ELSE IF ~cal_ok THEN required_dates_fallback(period, s, e)
  ELSE IF period = "daily" THEN sorted(schedule(s, e))
  ELSE IF period = "weekly" THEN sorted(weekly_end_dates(s, e))
  ELSE <<>>

\* ------------------------------------------------- missing-range detector
RECURSIVE scan_missing(_, _, _, _, _)
scan_missing(extended_dates, i, cached_dates_set, start_of_current_range, missing_ranges) ==
  IF i > Len(extended_dates) THEN missing_ranges
  ELSE LET current_date == extended_dates[i]
           is_missing == current_date # NoDate /\ current_date \notin cached_dates_set
       IN IF is_missing /\ start_of_current_range = NoDate
          THEN scan_missing(extended_dates, i + 1, cached_dates_set, current_date, missing_ranges)
          ELSE IF ~is_missing /\ start_of_current_range # NoDate
          THEN scan_missing(extended_dates, i + 1, cached_dates_set, NoDate,
                            Append(missing_ranges, <<start_of_current_range, extended_dates[i - 1]>>))
          ELSE scan_missing(extended_dates, i + 1, cached_dates_set,
                            start_of_current_range, missing_ranges)

Min(a, b) == IF a <= b THEN a ELSE b

\* raw gaps handed on as they are
adjust_ranges_off(missing_ranges, market_aware_date) == missing_ranges

RECURSIVE adjust_ranges(_, _)
adjust_ranges(missing_ranges, market_aware_date) ==
  IF missing_ranges = <<>> THEN <<>>
  ELSE LET rg == Head(missing_ranges)
           rest == adjust_ranges(Tail(missing_ranges), market_aware_date)
       IN IF rg[1] > market_aware_date THEN rest
          ELSE <<(<<rg[1], Min(rg[2], market_aware_date)>>)>> \o rest

\* a detector that reports one span from the first missing key to the last
find_missing_one_span(required_dates, cached_dates, market_aware_date) ==
  LET raw == IF required_dates = <<>> THEN <<>>
             ELSE scan_missing(required_dates \o <<NoDate>>, 1, cached_dates, NoDate, <<>>)
  IN IF raw = <<>> THEN <<>>
     ELSE adjust_ranges(<< <<raw[1][1], raw[Len(raw)][2]>> >>, market_aware_date)

\* a detector that takes nothing for observed
find_missing_ignoring_cached(required_dates, cached_dates, market_aware_date) ==
  IF required_dates = <<>> THEN <<>>
  ELSE adjust_ranges(scan_missing(required_dates \o <<NoDate>>, 1, {}, NoDate, <<>>),
                     market_aware_date)

find_missing_date_ranges(required_dates, cached_dates, market_aware_date) ==
  IF required_dates = <<>> THEN <<>>
  ELSE adjust_ranges(scan_missing(required_dates \o <<NoDate>>, 1, cached_dates, NoDate, <<>>),
                     market_aware_date)

\* ------------------------------------------------------------ the clock
Today == MaxDate

\* the last session on or before target_date (looking back 30 days), else target_date
get_latest_trading_day(target_date) ==
  LET sess == schedule(target_date - 30, target_date)
  IN IF sess = {} THEN target_date
     ELSE CHOOSE d \in sess : \A x \in sess : x <= d

\* the modelled moment: today's session has not closed yet
FullyClosed == FALSE

\* fully_closed: today's session closed more than the one-hour buffer ago
get_market_aware_current_date(current_date_et, fully_closed) ==
  IF IsSession(current_date_et) /\ fully_closed
  THEN current_date_et
  ELSE get_latest_trading_day(current_date_et - 1)

\* ----------------------------------------------- the clock, hour by hour
\* the time of day in ticks of one hour; a session opens at MarketOpen and
\* closes at MarketClose (the market_open and market_close columns of the
\* NYSE schedule)
MarketOpen == 1
MarketClose == 3
\* timedelta(hours=1): the buffer after the close
GraceTicks == 1
Times == 0..MaxTime

\* nyse.open_at_time(extended_schedule, now_et) on a session day
open_at_time(now_et) == MarketOpen <= now_et /\ now_et < MarketClose

\* a buffer that ends with the close
buffer_end_time_at_close(market_close_et) == market_close_et

buffer_end_time(market_close_et) == market_close_et + GraceTicks

\* the lookups of one call that may raise: get_calendar and schedule (cal),
\* open_at_time (open), the reading of market_close (close), the schedule
\* of _get_latest_trading_day (ltd)
Lookups == [cal : BOOLEAN, open : BOOLEAN, close : BOOLEAN, ltd : BOOLEAN]
AllAnswer == [cal |-> TRUE, open |-> TRUE, close |-> TRUE, ltd |-> TRUE]

\* _get_latest_trading_day with its except branch: the target date itself
latest_trading_day(target_date, ltd_ok) ==
  IF ltd_ok THEN get_latest_trading_day(target_date) ELSE target_date

\* a clock that answers with the date of the server's own time zone
local_date_clock(current_date_et, now_et, local_today, ok) ==
  [date |-> local_today, failed |-> FALSE]

\* get_market_aware_current_date at the time now_et of the day
\* current_date_et: the date returned, and whether a lookup raised on the way
get_market_aware_current_date_at(current_date_et, now_et, local_today, ok) ==
  LET prior(target_date, raised) ==
        [date |-> latest_trading_day(target_date, ok.ltd), failed |-> raised \/ ~ok.ltd]
      yesterday_et == current_date_et - 1
  IN IF ~ok.cal THEN [date |-> local_today, failed |-> TRUE]
     ELSE IF ~IsSession(current_date_et)
     THEN IF IsSession(yesterday_et) THEN prior(yesterday_et, FALSE)
          ELSE prior(current_date_et, FALSE)
     ELSE IF ok.open /\ open_at_time(now_et) THEN prior(yesterday_et, FALSE)
     ELSE IF ~ok.close THEN prior(yesterday_et, TRUE)
     ELSE IF now_et < MarketClose THEN prior(yesterday_et, ~ok.open)
     ELSE IF now_et < buffer_end_time(MarketClose) THEN prior(yesterday_et, ~ok.open)
     ELSE [date |-> current_date_et, failed |-> ~ok.open]

\* a window that loses the caller's dates
default_window_undated(period, has, s, e, market_aware_date) == <<FALSE, NoDate, NoDate>>

\* the default window of get_stock_data: <<has dates, start_date, end_date>>
default_window(period, has, s, e, market_aware_date) ==
  IF ~has /\ period = "daily"
  THEN <<TRUE, market_aware_date - DailyDefaultDays, market_aware_date>>
  ELSE <<has, s, e>>

Latest(S) == CHOOSE d \in S : \A x \in S : x <= d

\* _get_latest_complete_weekly_end_date: the last session of the week of
\* target_date when that week's trading is over (a Friday with the market
\* not open, or a weekend day), else the last session before that week
get_latest_complete_weekly_end_date(target_date, is_market_open) ==
  LET search_start == target_date - 30
      trading_days_set == schedule(search_start, target_date + 7)
      current_weekday == weekday(target_date)
      week_trading_ended ==
        IF current_weekday < 5 THEN current_weekday = 4 /\ ~is_market_open ELSE TRUE
      week_start == target_date - current_weekday
      this_week == {d \in trading_days_set : week_start <= d /\ d <= week_start + 4}
      last_sunday == target_date - (current_weekday + 1)
      earlier == {d \in trading_days_set : search_start <= d /\ d <= last_sunday}
  IN IF trading_days_set = {} THEN target_date
     ELSE IF week_trading_ended /\ this_week # {} THEN Latest(this_week)
     ELSE IF ~week_trading_ended /\ earlier # {} THEN Latest(earlier)
     ELSE Latest(trading_days_set)

\* lines 103-125 with the weekly branch, which looks at the wall clock
default_window_at(period, has, s, e, market_aware_date, is_market_open) ==
  IF ~has /\ period = "weekly"
  THEN LET end_date_obj == get_latest_complete_weekly_end_date(market_aware_date, is_market_open)
       IN <<TRUE, end_date_obj - WeeklyDefaultDays, end_date_obj>>
  ELSE default_window(period, has, s, e, market_aware_date)

\* the requested end date passed on as it came
clamp_end_date_off(has, e, market_aware_date) == e

\* lines 132-136: an end date after the safe-as-of date is replaced by it
clamp_end_date(has, e, market_aware_date) ==
  IF has /\ e > market_aware_date THEN market_aware_date ELSE e

\* --------------------------------------------------------- the three tiers
\* a save that never reaches Redis
save_to_redis_dropped(entries, period, data) == entries

\* a save that writes whatever it is given
save_to_redis_even_empty(entries, period, data) == [entries EXCEPT ![period] = data]

\* CacheManager.save_to_redis: an empty frame is refused, the key is left as it was
save_to_redis(entries, period, data) ==
  IF data = <<>> THEN entries ELSE [entries EXCEPT ![period] = data]

get_from_redis(entries, period) == entries[period]

\* _query_database: rows of the table in [start, end] ordered by date; an
\* exception of the query is caught and None is returned
query_database(table, has, s, e, db_ok) ==
  IF ~db_ok THEN <<>> ELSE SelectRows(table, s, e, has, has)

\* the value columns of a provider row (one provider, one history)
ProviderValue == 1

\* fetch_from_akshare: the provider's rows in [start, end] (to yesterday when
\* no end is given); None when every attempt failed or the answer is empty
fetch_from_akshare(provider_dates, has, s, e, fetch_ok) ==
  IF ~fetch_ok THEN <<>>
  ELSE LET hi == IF has THEN e ELSE Today - 1
           ds == {d \in provider_dates : (has => d >= s) /\ d <= hi}
           days == sorted(ds)
       IN [i \in 1..Len(days) |-> [date |-> days[i], val |-> ProviderValue]]

\* a durable-store answer of nothing (or a failed query) taken as "nothing to fetch"
still_missing_trusting_db(data_from_db, required_dates, gap, market_aware_date) ==
  IF data_from_db # <<>>
  THEN find_missing_date_ranges(
         SelectSeq(required_dates, LAMBDA d : gap[1] <= d /\ d <= gap[2]),
         DateSet(data_from_db), market_aware_date)
  ELSE <<>>

\* every cache gap fetched whole, whatever the durable store gave
still_missing_whole_gap(data_from_db, required_dates, gap, market_aware_date) == <<gap>>

\* the sub-ranges of one cache gap that still have to come from the provider
still_missing_after_db(data_from_db, required_dates, gap, market_aware_date) ==
  IF data_from_db # <<>>
  THEN find_missing_date_ranges(
         SelectSeq(required_dates, LAMBDA d : gap[1] <= d /\ d <= gap[2]),
         DateSet(data_from_db), market_aware_date)
  ELSE <<gap>>

\* a merge that keeps the new rows only
merge_new_only(redis_data, new_data_df) ==
  IF new_data_df # <<>> THEN sort_values(drop_duplicates(new_data_df)) ELSE redis_data

\* the series written back to the cache and returned on the cache-partial path
merge_with_cache(redis_data, new_data_df) ==
  IF new_data_df # <<>> THEN concat_dedup_sort(redis_data, new_data_df) ELSE redis_data

\* the series written back and returned on the durable-store-partial path
merge_with_db(db_data, new_data_df) ==
  IF new_data_df # <<>> THEN concat_dedup_sort(db_data, new_data_df) ELSE db_data

\* an append that writes the buffered series back without the new rows
pending_existing_kept(existing_data, new_data) ==
  IF existing_data # <<>> THEN existing_data ELSE new_data

\* the buffered series _append_to_pending_save writes back
pending_combined(existing_data, new_data) ==
  IF existing_data # <<>> THEN concat_dedup_sort(existing_data, new_data) ELSE new_data

\* lines 281-289: leading ranges without a session are skipped on the
\* durable-store path; when the calendar backend raises, the range is fetched
RECURSIVE skip_non_trading(_, _)
skip_non_trading(ranges, cal_ok) ==
  IF ranges = <<>> THEN <<>>
  ELSE IF cal_ok /\ schedule(Head(ranges)[1], Head(ranges)[2]) = {}
       THEN skip_non_trading(Tail(ranges), cal_ok)
       ELSE ranges

\* an append of everything the durable-store path holds
pending_fragment_with_db_rows(db_data, new_data_df) == concat_dedup_sort(db_data, new_data_df)

\* line 309: the frame handed to _append_to_pending_save on the
\* durable-store-partial path is the provider's rows alone
pending_fragment(db_data, new_data_df) == new_data_df

\* coroutines that could be switched anywhere
may_run_anywhere(r, running) == TRUE

\* one asyncio event loop: a coroutine runs when no other one is in
\* synchronous code
may_run(r, running) == running = 0 \/ running = r

\* ================================================================ state
vars == <<cache, buffer, store, provDates, loop, rs, res,
          calls, fl, obs, appended, since, kept, clock, limiter>>

\* the calendars of the runs in which a holiday matters: none, or day 2
HolidaySets == {{}, {2}}

Sessions == {d \in Dates : IsSession(d)}
ProviderSets == {Sessions, Sessions \ {2}}
\* the windows requested: one day, the whole past, a window that ends today
\* (clamped), today alone (nothing left after clamping), start after end
Windows == {<<1, 1>>, <<2, 2>>, <<1, MaxDate - 1>>, <<2, MaxDate>>,
            <<MaxDate, MaxDate>>, <<MaxDate, 1>>}
Outcomes == {"ok", "upsert_error", "commit_error"}

IdleLocals ==
  [pc |-> "idle", period |-> "daily", has |-> FALSE,
   start_date |-> NoDate, end_date |-> NoDate, market_aware_date |-> NoDate,
   required_dates |-> <<>>, redis_data |-> <<>>, db_data |-> <<>>,
   missing_ranges |-> <<>>, still_missing_ranges |-> <<>>,
   all_newly_fetched_data |-> <<>>, data_from_remote_only |-> <<>>,
   new_data |-> <<>>, existing_data |-> <<>>, combined_data |-> <<>>,
   save_after |-> FALSE]

NoObs ==
  [cal_failed |-> FALSE, done |-> FALSE, args |-> <<"daily", FALSE, NoDate, NoDate>>, path |-> "none",
   invalid |-> FALSE, window |-> <<FALSE, NoDate, NoDate>>, required |-> {},
   held |-> {}, obtained |-> {}, raced |-> FALSE, fragment |-> {},
   db_error |-> FALSE, db_failed |-> {}, asked |-> {}, failed_fetches |-> {},
   provider_calls |-> 0, follow |-> FALSE, quiet |-> FALSE,
   prev_none |-> FALSE, prev_df |-> <<>>,
   cache_reads |-> 0, cached |-> <<>>, db_queries |-> 0, from_db |-> <<>>,
   fetched |-> {}, cache_writes |-> 0, appends |-> 0, cancelled |-> FALSE]

NoResult == [none |-> FALSE, df |-> <<>>]

\* the locals of a persist_pending_data run started by POST /persist-data
\* while the scheduled job has its own
IdleManual == [pc |-> "idle", pending_data |-> <<>>, processed_keys |-> <<>>]

IdleFlusher ==
  [pc |-> "idle", pending_data |-> <<>>, processed_keys |-> <<>>,
   processed_count |-> 0, failed_count |-> 0, details |-> <<>>, errors |-> <<>>,
   snapshot |-> [k \in Periods |-> <<>>], outcome |-> [k \in Periods |-> "none"],
   cleared |-> {}, manual |-> IdleManual]

\* no request made yet
NoFetch ==
  [pc |-> "idle", has |-> FALSE, start_date |-> NoDate, end_date |-> NoDate,
   attempt_number |-> 0, outcomes |-> <<>>, returned |-> "nothing", df |-> <<>>]

FreshLimiter == [now |-> 0, request_times |-> <<>>, price_calls |-> <<>>, fetch |-> NoFetch]

NoAnswer == [date |-> NoDate, failed |-> FALSE, on |-> NoDate, at |-> 0]

\* the clock of the resolver's modelled moment: today, the session open, a
\* calendar without holidays
StoppedClock ==
  [date |-> Today, time |-> MarketOpen, holidays |-> {}, answers |-> 0,
   last |-> NoAnswer, before |-> NoAnswer]

Init ==
  /\ clock = StoppedClock
  /\ cache = [k \in Periods |-> <<>>]
  /\ buffer = [k \in Periods |-> <<>>]
  /\ store = [k \in Periods |-> <<>>]
  /\ provDates \in ProviderSets
  /\ loop = 0
  /\ rs = [r \in Resolvers |-> IdleLocals]
  /\ res = [r \in Resolvers |-> NoResult]
  /\ calls = 0
  /\ fl = IdleFlusher
  /\ obs = [r \in Resolvers |-> NoObs]
  /\ appended = [k \in Periods |-> {}]
  /\ since = [k \in Periods |-> {}]
  /\ kept = [k \in Periods |-> {}]
  /\ limiter = FreshLimiter

\* --------------------------------------------------------- history helpers
\* something changed that a repeated call may see: a call that has returned
\* is no longer followed "with no change in between", a repetition under way
\* is no longer one
Unquiet(o) == IF o.done THEN [o EXCEPT !.quiet = FALSE] ELSE [o EXCEPT !.follow = FALSE]

Disturb == obs' = [q \in Resolvers |-> Unquiet(obs[q])]

\* a cache entry ran out: besides, a call under way whose cache write may be
\* the one that went is no longer one a repetition can be compared with
Lapse == obs' = [q \in Resolvers |-> [Unquiet(obs[q]) EXCEPT !.quiet = FALSE]]

\* the call r goes on with history o; nobody else is touched
Continue(r, o) ==
  /\ obs' = [obs EXCEPT ![r] = o]
  /\ UNCHANGED res

\* the call r returns (none: it returns None)
Finish(r, o, none, df) ==
  /\ rs' = [rs EXCEPT ![r] = [IdleLocals EXCEPT !.pc = "done"]]
  /\ res' = [res EXCEPT ![r] = [none |-> none, df |-> IF none THEN <<>> ELSE df]]
  /\ loop' = 0
  /\ obs' = [obs EXCEPT ![r] = [o EXCEPT !.done = TRUE,
                                           !.quiet = o.quiet /\ \A q \in Resolvers \ {r} :
                                                       rs[q].pc \in {"idle", "done"}]]

Range(has, s, e) == <<has, s, e>>

\* a result is handed to the caller at once: nothing else happens between a
\* call's return and the caller's taking (or repeating) it
NoHandOver == \A q \in Resolvers : rs[q].pc # "done"

\* ================================================= get_stock_data (Resolve)
\* _append_to_pending_save, first half: read the buffered series.  For
\* 'hourly' the provider frame has a 'timestamp' column and no
\* 'hour_timestamp' one, so merging into an existing entry raises KeyError,
\* which the caller turns into a None result.
BeginAppend(r, L, o) ==
  LET existing_data == get_from_redis(buffer, L.period)
  IN IF L.period = "hourly" /\ existing_data # <<>>
     THEN /\ Finish(r, o, TRUE, <<>>)
          /\ UNCHANGED kept
     ELSE /\ rs' = [rs EXCEPT ![r] = [L EXCEPT !.pc = "append",
                                               !.existing_data = existing_data]]
          /\ loop' = r
          /\ Continue(r, o)
          /\ kept' = IF L.save_after THEN kept
                     ELSE [kept EXCEPT ![L.period] = @ \cup DateSet(L.new_data)]

\* cache-partial path, step 3: merge, write the cache back, append, return
CacheMerge(r, L, o) ==
  LET new_data_df == L.all_newly_fetched_data
      combined_data == merge_with_cache(L.redis_data, new_data_df)
  IN IF new_data_df # <<>>
     THEN /\ cache' = save_to_redis(cache, L.period, combined_data)
          /\ IF L.data_from_remote_only # <<>>
             THEN BeginAppend(r, [L EXCEPT !.combined_data = combined_data,
                                           !.new_data = L.data_from_remote_only,
                                           !.save_after = FALSE],
                              [o EXCEPT !.cache_writes = @ + 1])
             ELSE /\ Finish(r, [o EXCEPT !.cache_writes = @ + 1], FALSE,
                            filter_dataframe_by_date(combined_data, L.has, L.start_date, L.end_date))
                  /\ UNCHANGED kept
     ELSE /\ UNCHANGED <<cache, kept>>
          /\ Finish(r, o, FALSE,
                    filter_dataframe_by_date(L.redis_data, L.has, L.start_date, L.end_date))

NextGap(r, L, o) ==
  IF L.missing_ranges # <<>>
  THEN /\ rs' = [rs EXCEPT ![r] = [L EXCEPT !.pc = "gap"]]
       /\ loop' = r
       /\ UNCHANGED <<cache, kept>>
       /\ Continue(r, o)
  ELSE CacheMerge(r, L, o)

\* durable-store-partial path, steps 3 to 5
DbMerge(r, L, o) ==
  LET new_data_df == L.all_newly_fetched_data
      combined_data == merge_with_db(L.db_data, new_data_df)
  IN IF new_data_df # <<>>
     THEN /\ cache' = cache
          /\ BeginAppend(r, [L EXCEPT !.combined_data = combined_data,
                                      !.new_data = pending_fragment(L.db_data, new_data_df),
                                      !.save_after = TRUE], o)
     ELSE /\ cache' = save_to_redis(cache, L.period, combined_data)
          /\ UNCHANGED kept
          /\ Finish(r, [o EXCEPT !.cache_writes = @ + 1], FALSE,
                    filter_dataframe_by_date(combined_data, L.has, L.start_date, L.end_date))

\* lines 91-177 and 249: validation, default window, clamping, required
\* dates, the cache read and the completeness check
Begin(r, period, has, s, e, cal_ok, follow, prev) ==
  /\ loop = 0
  /\ UNCHANGED <<cache, buffer, store, provDates, limiter, clock, fl, appended, since, kept>>
  /\ LET market_aware_date == get_market_aware_current_date(Today, FullyClosed)
         w == default_window(period, has, s, e, market_aware_date)
         end_date == clamp_end_date(w[1], w[3], market_aware_date)
         required_dates == get_required_dates(period, w[1], w[2], end_date, cal_ok)
         redis_data == get_from_redis(cache, period)
         missing_ranges == find_missing_date_ranges(required_dates, DateSet(redis_data),
                                                    market_aware_date)
         L == [IdleLocals EXCEPT !.period = period, !.has = w[1], !.start_date = w[2],
                                 !.end_date = end_date,
                                 !.market_aware_date = market_aware_date,
                                 !.required_dates = required_dates,
                                 !.redis_data = redis_data]
         o == [NoObs EXCEPT !.args = <<period, has, s, e>>,
                            !.cal_failed = ~cal_ok /\ w[1] /\ w[2] <= end_date,
                            !.invalid = has /\ s > e,
                            !.window = Range(w[1], w[2], end_date),
                            !.raced = \E q \in Resolvers \ {r} : rs[q].pc \notin {"idle", "done"},
                            !.required = SeqToSet(required_dates),
                            !.held = DateSet(filter_dataframe_by_date(cache[period], w[1], w[2], w[3]))
                                     \cup DateSet(filter_dataframe_by_date(store[period], w[1], w[2], w[3])),
                            !.obtained = IF required_dates = <<>> /\ w[1] THEN {}
                                         ELSE DateSet(redis_data),
                            !.follow = follow, !.quiet = TRUE,
                            !.cache_reads = IF required_dates = <<>> /\ w[1] THEN 0 ELSE 1,
                            !.cached = IF required_dates = <<>> /\ w[1] THEN <<>>
                                       ELSE redis_data,
                            !.prev_none = prev.none, !.prev_df = prev.df]
         goes_on(L1, o1) ==
           /\ rs' = [rs EXCEPT ![r] = L1]
           /\ loop' = r
           /\ obs' = [q \in Resolvers |->
                        IF q = r THEN o1
                        ELSE IF rs[q].pc \in {"idle", "done"} THEN Unquiet(obs[q])
                        ELSE [Unquiet(obs[q]) EXCEPT !.raced = TRUE]]
           /\ UNCHANGED res
     IN IF required_dates = <<>> /\ w[1]
        THEN Finish(r, [o EXCEPT !.path = "early"], FALSE, <<>>)
        ELSE IF redis_data # <<>>
        THEN IF required_dates = <<>>
             THEN Finish(r, [o EXCEPT !.path = "cache_norequired"], FALSE,
                         filter_dataframe_by_date(redis_data, w[1], w[2], end_date))
             ELSE IF missing_ranges = <<>>
             THEN Finish(r, [o EXCEPT !.path = "cache_full"], FALSE,
                         filter_dataframe_by_date(redis_data, w[1], w[2], end_date))
             ELSE goes_on([L EXCEPT !.pc = "gap", !.missing_ranges = missing_ranges],
                          [o EXCEPT !.path = "cache_partial"])
        ELSE goes_on([L EXCEPT !.pc = "dbq"], [o EXCEPT !.path = "nocache"])

\* a request arrives; the coroutines are interchangeable, so the free one
\* with the smallest number serves it
Start(r, period, has, s, e, cal_ok) ==
  /\ rs[r].pc = "idle"
  /\ NoHandOver
  /\ \A q \in Resolvers : q < r => rs[q].pc # "idle"
  /\ calls < MaxCalls
  /\ calls' = calls + 1
  /\ Begin(r, period, has, s, e, cal_ok, FALSE, NoResult)

\* the caller repeats the request it has just got the answer of: nothing
\* changed since that call returned and no other call is in progress
Again(r) ==
  /\ rs[r].pc = "done"
  /\ obs[r].quiet
  /\ ~obs[r].follow
  /\ \A q \in Resolvers \ {r} : rs[q].pc \in {"idle", "done"}
  /\ calls < MaxCalls
  /\ calls' = calls + 1
  /\ Begin(r, obs[r].args[1], obs[r].args[2], obs[r].args[3], obs[r].args[4],
           ~obs[r].cal_failed, TRUE, res[r])

\* lines 183-202: the durable-store query of one cache gap
GapQuery(r, db_ok) ==
  /\ NoHandOver
  /\ rs[r].pc = "gap"
  /\ may_run(r, loop)
  /\ UNCHANGED <<buffer, store, provDates, limiter, clock, fl, calls, appended, since>>
  /\ LET L == rs[r]
         gap == Head(L.missing_ranges)
         data_from_db == query_database(store[L.period], TRUE, gap[1], gap[2], db_ok)
         still_missing_ranges ==
           still_missing_after_db(data_from_db, L.required_dates, gap, L.market_aware_date)
         o == [obs[r] EXCEPT !.db_error = @ \/ ~db_ok,
                             !.db_failed = IF db_ok THEN @ ELSE @ \cup {Range(TRUE, gap[1], gap[2])},
                             !.obtained = @ \cup DateSet(data_from_db),
                             !.db_queries = @ + 1,
                             !.from_db = @ \o data_from_db]
         L1 == [L EXCEPT !.all_newly_fetched_data = @ \o data_from_db]
     IN IF still_missing_ranges # <<>>
        THEN /\ rs' = [rs EXCEPT ![r] = [L1 EXCEPT !.pc = "cfetch",
                                                   !.still_missing_ranges = still_missing_ranges]]
             /\ loop' = 0
             /\ UNCHANGED <<cache, kept>>
             /\ Continue(r, o)
        ELSE NextGap(r, [L1 EXCEPT !.missing_ranges = Tail(@)], o)

\* what a provider call adds to the history of the call
Fetched(o, rg, frame) ==
  [o EXCEPT !.provider_calls = @ + 1,
            !.asked = @ \cup {rg},
            !.failed_fetches = IF frame = <<>> THEN @ \cup {rg} ELSE @,
            !.obtained = @ \cup DateSet(frame),
            !.fetched = @ \cup DateSet(frame)]

\* lines 206-214: the coroutine resumes with the provider's answer for one sub-range
CFetchReturn(r, fetch_ok) ==
  /\ NoHandOver
  /\ rs[r].pc = "cfetch"
  /\ may_run(r, loop)
  /\ UNCHANGED <<buffer, store, provDates, limiter, clock, fl, calls, appended, since>>
  /\ LET L == rs[r]
         sub == Head(L.still_missing_ranges)
         new_data_remote == fetch_from_akshare(provDates, TRUE, sub[1], sub[2], fetch_ok)
         o == Fetched(obs[r], Range(TRUE, sub[1], sub[2]), new_data_remote)
         L1 == [L EXCEPT !.all_newly_fetched_data = @ \o new_data_remote,
                         !.data_from_remote_only = @ \o new_data_remote,
                         !.still_missing_ranges = Tail(@)]
     IN IF L1.still_missing_ranges # <<>>
        THEN /\ rs' = [rs EXCEPT ![r] = L1]
             /\ loop' = 0
             /\ UNCHANGED <<cache, kept>>
             /\ Continue(r, o)
        ELSE NextGap(r, [L1 EXCEPT !.missing_ranges = Tail(@)], o)

\* lines 250-294: the durable-store query of the whole window
DbQuery(r, db_ok, cal_ok) ==
  /\ NoHandOver
  /\ rs[r].pc = "dbq"
  /\ may_run(r, loop)
  /\ UNCHANGED <<buffer, store, provDates, limiter, clock, fl, calls, appended, since>>
  /\ LET L == rs[r]
         db_data == query_database(store[L.period], L.has, L.start_date, L.end_date, db_ok)
         missing_ranges == find_missing_date_ranges(L.required_dates, DateSet(db_data),
                                                    L.market_aware_date)
         todo == skip_non_trading(missing_ranges, cal_ok)
         o == [obs[r] EXCEPT !.db_error = @ \/ ~db_ok,
                             !.db_failed = IF db_ok THEN @
                                           ELSE @ \cup {Range(L.has, L.start_date, L.end_date)},
                             !.obtained = @ \cup DateSet(db_data),
                             !.db_queries = @ + 1,
                             !.from_db = @ \o db_data]
         L1 == [L EXCEPT !.db_data = db_data]
     IN IF db_data # <<>>
        THEN IF missing_ranges = <<>>
             THEN /\ cache' = save_to_redis(cache, L.period, db_data)
                  /\ UNCHANGED kept
                  /\ Finish(r, [o EXCEPT !.path = "db_full", !.cache_writes = @ + 1], FALSE,
                            filter_dataframe_by_date(db_data, L.has, L.start_date, L.end_date))
             ELSE IF todo # <<>>
             THEN /\ rs' = [rs EXCEPT ![r] = [L1 EXCEPT !.pc = "dfetch", !.missing_ranges = todo]]
                  /\ loop' = 0
                  /\ UNCHANGED <<cache, kept>>
                  /\ Continue(r, [o EXCEPT !.path = "db_partial"])
             ELSE DbMerge(r, L1, [o EXCEPT !.path = "db_partial"])
        ELSE /\ rs' = [rs EXCEPT ![r] = [L1 EXCEPT !.pc = "pfetch"]]
             /\ loop' = 0
             /\ UNCHANGED <<cache, kept>>
             /\ Continue(r, [o EXCEPT !.path = "provider"])

\* lines 291-294: the provider's answer for one range the durable store lacks
DFetchReturn(r, fetch_ok, cal_ok) ==
  /\ NoHandOver
  /\ rs[r].pc = "dfetch"
  /\ may_run(r, loop)
  /\ UNCHANGED <<buffer, store, provDates, limiter, clock, fl, calls, appended, since>>
  /\ LET L == rs[r]
         gap == Head(L.missing_ranges)
         new_data == fetch_from_akshare(provDates, TRUE, gap[1], gap[2], fetch_ok)
         o == Fetched(obs[r], Range(TRUE, gap[1], gap[2]), new_data)
         L1 == [L EXCEPT !.all_newly_fetched_data = @ \o new_data,
                         !.missing_ranges = skip_non_trading(Tail(@), cal_ok)]
     IN IF L1.missing_ranges # <<>>
        THEN /\ rs' = [rs EXCEPT ![r] = L1]
             /\ loop' = 0
             /\ UNCHANGED <<cache, kept>>
             /\ Continue(r, o)
        ELSE DbMerge(r, L1, o)

\* lines 325-337: the provider's answer for the whole window
PFetchReturn(r, fetch_ok) ==
  /\ NoHandOver
  /\ rs[r].pc = "pfetch"
  /\ may_run(r, loop)
  /\ UNCHANGED <<cache, buffer, store, provDates, limiter, clock, fl, calls, appended, since>>
  /\ LET L == rs[r]
         remote_data == fetch_from_akshare(provDates, L.has, L.start_date,
                                           L.end_date, fetch_ok)
         o == Fetched(obs[r], Range(L.has, L.start_date, L.end_date), remote_data)
     IN IF remote_data = <<>>
        THEN /\ Finish(r, o, TRUE, <<>>)
             /\ UNCHANGED kept
        ELSE BeginAppend(r, [L EXCEPT !.new_data = remote_data,
                                      !.combined_data = remote_data,
                                      !.save_after = TRUE], o)

\* _append_to_pending_save, second half (merge and write back), then the
\* cache write that follows it on the durable-store and provider paths, and
\* the return
AppendWrite(r) ==
  /\ NoHandOver
  /\ rs[r].pc = "append"
  /\ may_run(r, loop)
  /\ LET L == rs[r]
     IN /\ buffer' = save_to_redis(buffer, L.period,
                                   pending_combined(L.existing_data, L.new_data))
        /\ cache' = IF L.save_after THEN save_to_redis(cache, L.period, L.combined_data)
                    ELSE cache
        /\ appended' = [appended EXCEPT ![L.period] = @ \cup DateSet(L.new_data)]
        /\ since' = [since EXCEPT ![L.period] = @ \cup DateSet(L.new_data)]
        /\ kept' = IF L.save_after
                   THEN [kept EXCEPT ![L.period] = @ \cup DateSet(L.new_data)]
                   ELSE kept
        /\ Finish(r, [obs[r] EXCEPT !.fragment = DateSet(L.new_data),
                                    !.appends = @ + 1,
                                    !.cache_writes = IF L.save_after THEN @ + 1 ELSE @],
                  FALSE,
                  filter_dataframe_by_date(L.combined_data, L.has, L.start_date, L.end_date))
  /\ UNCHANGED <<store, provDates, limiter, clock, fl, calls>>

\* the caller has taken the result; the coroutine is gone
Return(r) ==
  /\ rs[r].pc = "done"
  /\ rs' = [rs EXCEPT ![r] = IdleLocals]
  /\ res' = [res EXCEPT ![r] = NoResult]
  /\ obs' = [obs EXCEPT ![r] = NoObs]
  /\ UNCHANGED <<cache, buffer, store, provDates, limiter, clock, loop, calls, fl,
                 appended, since, kept>>

\* the TTL of a general cache entry runs out.  setex gives an entry 3600 s
\* from its last write, so an entry does not run out inside the synchronous
\* code of the call that has just written it
Expire(k) ==
  /\ NoHandOver
  /\ loop = 0
  /\ cache[k] # <<>>
  /\ cache' = [cache EXCEPT ![k] = <<>>]
  /\ kept' = [kept EXCEPT ![k] = {}]
  /\ Lapse
  /\ UNCHANGED <<buffer, store, provDates, limiter, clock, loop, rs, res, calls, fl,
                 appended, since>>

\* ============================ DatabaseWriter.persist_pending_data (flusher)
\* _prepare_daily_price_data and _prepare_hourly_price_data: the rows handed
\* to the upsert.  The hourly variant reads the 'date' column, which an
\* hourly frame does not have (the provider renamed it to 'timestamp'), so
\* every row is skipped as "invalid timestamp".
prepare_price_data(period, dataframe) ==
  IF period = "hourly" THEN <<>> ELSE dataframe

\* INSERT ... ON CONFLICT (ticker, date) DO UPDATE: the new row wins
on_conflict_do_update(table, price_data) == concat_dedup_sort(price_data, table)

\* _batch_upsert_prices: <<table after the statement, rows processed>>; an
\* exception of the statement is caught here and 0 is returned
batch_upsert_prices(table, price_data, execute_ok) ==
  IF price_data = <<>> THEN <<table, 0>>
  ELSE IF ~execute_ok THEN <<table, 0>>
  ELSE <<on_conflict_do_update(table, price_data), Len(price_data)>>

\* the keys the loop body puts on processed_keys (line 313 is inside the
\* "with db.begin()" block, before the commit at its exit)
mark_processed(processed_keys, period) == Append(processed_keys, period)

\* the failure count after one key: only an exception that leaves the
\* "with db.begin()" block is counted
count_failure(failed_count, raised) == IF raised THEN failed_count + 1 ELSE failed_count

KeyOrders ==
  {ord \in [1..Cardinality(Periods) -> Periods] : \A i, j \in DOMAIN ord : ord[i] = ord[j] => i = j}

\* get_pending_data_from_redis: KEYS pending_save:* and a GET of each key
FlushScan(ord) ==
  /\ fl.pc = "idle"
  /\ NoHandOver
  /\ LET keys == SelectSeq(ord, LAMBDA k : buffer[k] # <<>>)
         pending_data == [i \in 1..Len(keys) |-> [period |-> keys[i], dataframe |-> buffer[keys[i]]]]
     IN /\ pending_data # <<>>
        /\ fl' = [IdleFlusher EXCEPT
                    !.manual = fl.manual,
                    !.pc = "persist",
                    !.pending_data = pending_data,
                    !.snapshot = [k \in Periods |-> IF \E i \in 1..Len(keys) : keys[i] = k
                                                    THEN buffer[k] ELSE <<>>]]
  /\ UNCHANGED <<cache, buffer, store, provDates, limiter, clock, loop, rs, res,
                 calls, obs, appended, since, kept>>

\* lines 269-327: one iteration of the loop, one transaction
FlushKey(outcome) ==
  /\ fl.pc = "persist"
  /\ NoHandOver
  /\ LET item == Head(fl.pending_data)
         k == item.period
         price_data == prepare_price_data(k, item.dataframe)
         up == batch_upsert_prices(store[k], price_data, outcome # "upsert_error")
         committed == outcome # "commit_error"
     IN /\ price_data = <<>> => outcome = "ok"
        /\ store' = IF committed THEN [store EXCEPT ![k] = up[1]] ELSE store
        /\ fl' = [fl EXCEPT
                    !.pending_data = Tail(@),
                    !.processed_count = @ + up[2],
                    !.details = Append(@, [period |-> k, rows_processed |-> up[2]]),
                    !.processed_keys = mark_processed(@, k),
                    !.failed_count = count_failure(@, ~committed),
                    !.errors = IF committed THEN @ ELSE Append(@, k),
                    !.outcome = [@ EXCEPT ![k] = outcome],
                    !.pc = IF Tail(fl.pending_data) = <<>> THEN "clear" ELSE "persist"]
        /\ IF store' # store THEN Disturb ELSE UNCHANGED obs
  /\ UNCHANGED <<cache, buffer, provDates, limiter, clock, loop, rs, res,
                 calls, appended, since, kept>>

\* lines 333-339 with CacheManager.clear_saved_data: DEL pending_save:{ticker}:{period}
FlushClear ==
  /\ fl.pc = "clear"
  /\ NoHandOver
  /\ LET k == Head(fl.processed_keys)
     IN /\ buffer' = [buffer EXCEPT ![k] = <<>>]
        /\ since' = [since EXCEPT ![k] = {}]
        /\ fl' = [fl EXCEPT !.processed_keys = Tail(@),
                            !.cleared = @ \cup {k},
                            !.pc = IF Tail(fl.processed_keys) = <<>> THEN "done" ELSE "clear"]
  /\ UNCHANGED <<cache, store, provDates, limiter, clock, loop, rs, res,
                 calls, obs, appended, kept>>

\* line 353: the cycle returns its result
FlushReturn ==
  /\ fl.pc = "done"
  /\ NoHandOver
  /\ fl' = [IdleFlusher EXCEPT !.manual = fl.manual]
  /\ UNCHANGED <<cache, buffer, store, provDates, limiter, clock, loop, rs, res,
                 calls, obs, appended, since, kept>>

\* ================================================================== next
CallArgs(period) ==
  {<<FALSE, NoDate, NoDate>>} \cup
  {<<TRUE, w[1], w[2]>> : w \in IF period = "daily" THEN Windows ELSE {<<1, MaxDate>>}}

\* in Spec and ConcurrentSpec the calendar backend answers every time
Next ==
  \/ \E period \in Periods :
       \E a \in CallArgs(period) : Start(1, period, a[1], a[2], a[3], TRUE)
  \/ Again(1)
  \/ \E db_ok \in BOOLEAN : GapQuery(1, db_ok)
  \/ \E fetch_ok \in BOOLEAN : CFetchReturn(1, fetch_ok)
  \/ \E db_ok \in BOOLEAN : DbQuery(1, db_ok, TRUE)
  \/ \E fetch_ok \in BOOLEAN : DFetchReturn(1, fetch_ok, TRUE)
  \/ \E fetch_ok \in BOOLEAN : PFetchReturn(1, fetch_ok)
  \/ AppendWrite(1)
  \/ Return(1)
  \/ \E k \in Periods : Expire(k)
  \/ \E ord \in KeyOrders : FlushScan(ord)
  \/ \E outcome \in Outcomes : FlushKey(outcome)
  \/ FlushClear
  \/ FlushReturn

Spec == Init /\ [][Next]_vars

\* two overlapping daily calls; they start with nothing anywhere, or after
\* an earlier call for day 2 whose fragment has been flushed, with its cache
\* entry still there or expired
Earlier == <<[date |-> 2, val |-> ProviderValue]>>
Cold == [k \in Periods |-> <<>>]
Warm == [k \in Periods |-> IF k = "daily" THEN Earlier ELSE <<>>]

ConcurrentInit ==
  /\ clock = StoppedClock
  /\ cache \in {Cold, Warm}
  /\ store \in {Cold, Warm}
  /\ cache = Warm => store = Warm
  /\ buffer = [k \in Periods |-> <<>>]
  /\ provDates = Sessions
  /\ loop = 0
  /\ rs = [r \in Resolvers |-> IdleLocals]
  /\ res = [r \in Resolvers |-> NoResult]
  /\ calls = 0
  /\ fl = IdleFlusher
  /\ obs = [r \in Resolvers |-> NoObs]
  /\ appended = [k \in Periods |-> DateSet(store[k])]
  /\ since = [k \in Periods |-> {}]
  /\ kept = [k \in Periods |-> DateSet(cache[k])]
  /\ limiter = FreshLimiter

ConcurrentNext ==
  \/ \E r \in Resolvers :
       \E a \in CallArgs("daily") : Start(r, "daily", a[1], a[2], a[3], TRUE)
  \/ \E r \in Resolvers, db_ok \in BOOLEAN : GapQuery(r, db_ok)
  \/ \E r \in Resolvers, fetch_ok \in BOOLEAN : CFetchReturn(r, fetch_ok)
  \/ \E r \in Resolvers, db_ok \in BOOLEAN : DbQuery(r, db_ok, TRUE)
  \/ \E r \in Resolvers, fetch_ok \in BOOLEAN : DFetchReturn(r, fetch_ok, TRUE)
  \/ \E r \in Resolvers, fetch_ok \in BOOLEAN : PFetchReturn(r, fetch_ok)
  \/ \E r \in Resolvers : AppendWrite(r)
  \/ \E r \in Resolvers : Return(r)
  \/ \E ord \in KeyOrders : FlushScan(ord)
  \/ \E outcome \in Outcomes : FlushKey(outcome)
  \/ FlushClear
  \/ FlushReturn

ConcurrentSpec == ConcurrentInit /\ [][ConcurrentNext]_vars

\* ============================== _find_missing_date_ranges taken by itself
\* every order of every set of dates
RECURSIVE Orders(_)
Orders(S) ==
  IF S = {} THEN {<<>>}
  ELSE UNION {{<<x>> \o p : p \in Orders(S \ {x})} : x \in S}

RequiredLists == UNION {Orders(S) : S \in SUBSET Dates}

\* the cached frame that holds the point-keys S
FrameOf(S) ==
  LET days == sorted(S)
  IN [i \in 1..Len(days) |-> [date |-> days[i], val |-> ProviderValue]]

\* a call stands before line 170 with a required list, a cached frame and a
\* safe-as-of date
DetectorInit ==
  /\ clock = StoppedClock
  /\ cache = [k \in Periods |-> <<>>]
  /\ buffer = [k \in Periods |-> <<>>]
  /\ store = [k \in Periods |-> <<>>]
  /\ provDates = Sessions
  /\ loop = 0
  /\ \E required_dates \in RequiredLists, cached_dates \in SUBSET Dates,
        market_aware_date \in Dates :
       rs = [r \in Resolvers |->
               IF r = 1
               THEN [IdleLocals EXCEPT !.required_dates = required_dates,
                                       !.redis_data = FrameOf(cached_dates),
                                       !.market_aware_date = market_aware_date]
               ELSE IdleLocals]
  /\ res = [r \in Resolvers |-> NoResult]
  /\ calls = 0
  /\ fl = IdleFlusher
  /\ obs = [r \in Resolvers |-> NoObs]
  /\ appended = [k \in Periods |-> {}]
  /\ since = [k \in Periods |-> {}]
  /\ kept = [k \in Periods |-> {}]
  /\ limiter = FreshLimiter

\* lines 169-170: cached_dates of the frame, then the detector
Detect ==
  /\ rs[1].pc = "idle"
  /\ rs' = [rs EXCEPT ![1].pc = "detected",
                      ![1].missing_ranges =
                         find_missing_date_ranges(rs[1].required_dates,
                                                  DateSet(rs[1].redis_data),
                                                  rs[1].market_aware_date)]
  /\ UNCHANGED <<cache, buffer, store, provDates, limiter, clock, loop, res, calls, fl, obs,
                 appended, since, kept>>

DetectorNext == Detect

DetectorSpec == DetectorInit /\ [][DetectorNext]_vars

\* ============================================== the merges taken by themselves
\* the values the provider gives for one point-key at one fetch and at a later one
Values == {ProviderValue, ProviderValue + 1}
Keys == 1..MaxKey

\* every series the program holds or fetches: sorted by point-key, each
\* point-key once
SeriesOf(S, f) ==
  LET days == sorted(S)
  IN [i \in 1..Len(days) |-> [date |-> days[i], val |-> f[days[i]]]]

Series == UNION {{SeriesOf(S, f) : f \in [S -> Values]} : S \in SUBSET Keys}

\* the cache entry, the durable-store partial and the buffered series hold
\* one series; each of two calls has fetched a fragment
MergeInit ==
  /\ clock = StoppedClock
  /\ \E held \in Series, first \in Series, second \in Series :
       /\ cache = [k \in Periods |-> IF k = "daily" THEN held ELSE <<>>]
       /\ buffer = [k \in Periods |-> IF k = "daily" THEN held ELSE <<>>]
       /\ rs = [r \in Resolvers |->
                  [IdleLocals EXCEPT !.db_data = held,
                                     !.new_data = IF r = 1 THEN first ELSE second]]
  /\ store = [k \in Periods |-> <<>>]
  /\ provDates = Sessions
  /\ loop = 0
  /\ res = [r \in Resolvers |-> NoResult]
  /\ calls = 0
  /\ fl = IdleFlusher
  /\ obs = [r \in Resolvers |-> NoObs]
  /\ appended = [k \in Periods |-> {}]
  /\ since = [k \in Periods |-> {}]
  /\ kept = [k \in Periods |-> {}]
  /\ limiter = FreshLimiter

\* the fragment of call r arrives and is merged: into the cache entry (lines
\* 225-228), into the durable-store partial (line 306) and into the buffered
\* series (lines 937-945)
Merge(r) ==
  /\ rs[r].pc = "idle"
  /\ cache' = save_to_redis(cache, "daily",
                            merge_with_cache(get_from_redis(cache, "daily"), rs[r].new_data))
  /\ buffer' = save_to_redis(buffer, "daily",
                             pending_combined(get_from_redis(buffer, "daily"), rs[r].new_data))
  /\ rs' = [rs EXCEPT ![r].pc = "merged",
                      ![r].combined_data = merge_with_db(rs[r].db_data, rs[r].new_data)]
  /\ UNCHANGED <<store, provDates, limiter, clock, loop, res, calls, fl, obs, appended, since, kept>>

MergeNext == \E r \in Resolvers : Merge(r)

MergeSpec == MergeInit /\ [][MergeNext]_vars

\* ===================================== _append_to_pending_save taken by itself
\* a caller stands before _append_to_pending_save with a fragment of one
\* period, the pending_save entry of that period holding a series
AppendInit ==
  /\ clock = StoppedClock
  /\ \E period \in Periods, held \in Series, fragment \in Series :
       /\ buffer = [k \in Periods |-> IF k = period THEN held ELSE <<>>]
       /\ rs = [r \in Resolvers |->
                  IF r = 1
                  THEN [IdleLocals EXCEPT !.pc = "appending", !.period = period,
                                          !.new_data = fragment]
                  ELSE IdleLocals]
       /\ since = [k \in Periods |-> IF k = period THEN DateSet(held) ELSE {}]
  /\ cache = [k \in Periods |-> <<>>]
  /\ store = [k \in Periods |-> <<>>]
  /\ provDates = Sessions
  /\ loop = 0
  /\ res = [r \in Resolvers |-> NoResult]
  /\ calls = 0
  /\ fl = IdleFlusher
  /\ obs = [r \in Resolvers |-> NoObs]
  /\ appended = since
  /\ kept = [k \in Periods |-> {}]
  /\ limiter = FreshLimiter

\* lines 921-943: an empty fragment returns at once; else the entry is read
\* and, when there is one, merged with the fragment
AppendCall(r) ==
  /\ rs[r].pc = "appending"
  /\ IF rs[r].new_data = <<>>
     THEN /\ Finish(r, obs[r], FALSE, <<>>)
          /\ UNCHANGED kept
     ELSE BeginAppend(r, rs[r], obs[r])
  /\ UNCHANGED <<cache, buffer, store, provDates, limiter, clock, calls, fl, appended, since>>

AppendNext ==
  \/ AppendCall(1)
  \/ AppendWrite(1)

AppendSpec == AppendInit /\ [][AppendNext]_vars

\* ============================ get_market_aware_current_date taken by itself
\* the days the clock runs through: sessions, then days without one
ClockDays == 2..(MaxDate + 3)

ClockInit ==
  /\ \E d \in ClockDays : clock = [StoppedClock EXCEPT !.date = d, !.time = 0]
  /\ cache = [k \in Periods |-> <<>>]
  /\ buffer = [k \in Periods |-> <<>>]
  /\ store = [k \in Periods |-> <<>>]
  /\ provDates = Sessions
  /\ loop = 0
  /\ rs = [r \in Resolvers |-> IdleLocals]
  /\ res = [r \in Resolvers |-> NoResult]
  /\ calls = 0
  /\ fl = IdleFlusher
  /\ obs = [r \in Resolvers |-> NoObs]
  /\ appended = [k \in Periods |-> {}]
  /\ since = [k \in Periods |-> {}]
  /\ kept = [k \in Periods |-> {}]
  /\ limiter = FreshLimiter

ClockFrame ==
  UNCHANGED <<cache, buffer, store, provDates, limiter, loop, rs, res, calls, fl, obs,
              appended, since, kept>>

\* an hour passes
Tick ==
  /\ clock.time < MaxTime
  /\ clock' = [clock EXCEPT !.time = @ + 1]
  /\ ClockFrame

\* the day ends; the answers followed are those of one day
Midnight ==
  /\ clock.time = MaxTime
  /\ clock.date + 1 \in ClockDays
  /\ clock' = [StoppedClock EXCEPT !.date = clock.date + 1, !.time = 0]
  /\ ClockFrame

\* one call of get_market_aware_current_date; date.today() is the date of
\* the server's time zone, the Eastern date or a neighbour of it
Ask(ok, local_today) ==
  /\ LET a == get_market_aware_current_date_at(clock.date, clock.time, local_today, ok)
     IN clock' = [clock EXCEPT
                    !.answers = IF @ < 2 THEN @ + 1 ELSE @,
                    !.before = clock.last,
                    !.last = [date |-> a.date, failed |-> a.failed,
                              on |-> clock.date, at |-> clock.time]]
  /\ ClockFrame

ClockNext ==
  \/ Tick
  \/ Midnight
  \/ \E ok \in Lookups : \E local_today \in {clock.date - 1, clock.date, clock.date + 1} :
       Ask(ok, local_today)

ClockSpec == ClockInit /\ [][ClockNext]_vars

\* ======================= the window of get_stock_data taken by itself
\* the periods of PeriodType
PeriodTypes == {"daily", "weekly", "hourly"}
\* the days a window is asked from and to: the first Monday and Friday, and
\* the Monday, Wednesday, Friday and Sunday of the last week
WindowDays ==
  {1, 5, 7 * MaxWeek - 6, 7 * MaxWeek - 4, 7 * MaxWeek - 2, 7 * MaxWeek}
WindowArgs ==
  {<<FALSE, NoDate, NoDate>>} \cup {<<TRUE, s, e>> : s \in WindowDays, e \in WindowDays}

\* a call arrives at some hour of a day of the last week; day 2 may have been
\* a holiday
WindowInit ==
  /\ \E d \in (7 * MaxWeek - 6)..(7 * MaxWeek), now_et \in Times, closed \in HolidaySets :
       clock = [StoppedClock EXCEPT !.date = d, !.time = now_et, !.holidays = closed]
  /\ cache = [k \in Periods |-> <<>>]
  /\ buffer = [k \in Periods |-> <<>>]
  /\ store = [k \in Periods |-> <<>>]
  /\ provDates = Sessions
  /\ loop = 0
  /\ \E period \in PeriodTypes, a \in WindowArgs :
       rs = [r \in Resolvers |->
               IF r = 1
               THEN [IdleLocals EXCEPT !.period = period, !.has = a[1],
                                       !.start_date = a[2], !.end_date = a[3]]
               ELSE IdleLocals]
  /\ res = [r \in Resolvers |-> NoResult]
  /\ calls = 0
  /\ fl = IdleFlusher
  /\ obs = [r \in Resolvers |-> NoObs]
  /\ appended = [k \in Periods |-> {}]
  /\ since = [k \in Periods |-> {}]
  /\ kept = [k \in Periods |-> {}]
  /\ limiter = FreshLimiter

\* lines 99-148 and 263: the safe-as-of date, the default window, the
\* clamping of the end date, the required dates, and the ranges that are
\* missing when nothing of them is held
Window(cal_ok) ==
  /\ rs[1].pc = "idle"
  /\ LET L == rs[1]
         market_aware_date ==
           get_market_aware_current_date_at(clock.date, clock.time, clock.date, AllAnswer).date
         is_market_open == IsSession(clock.date) /\ open_at_time(clock.time)
         w == default_window_at(L.period, L.has, L.start_date, L.end_date,
                                market_aware_date, is_market_open)
         end_date == clamp_end_date(w[1], w[3], market_aware_date)
         required_dates == get_required_dates(L.period, w[1], w[2], end_date, cal_ok)
     IN /\ rs' = [rs EXCEPT ![1] =
                 [L EXCEPT !.pc = "window", !.has = w[1], !.start_date = w[2],
                           !.end_date = end_date,
                           !.market_aware_date = market_aware_date,
                           !.required_dates = required_dates,
                           !.missing_ranges =
                              find_missing_date_ranges(required_dates, {}, market_aware_date)]]
        /\ obs' = [obs EXCEPT ![1] =
                     [@ EXCEPT !.args = <<L.period, L.has, L.start_date, L.end_date>>,
                               !.cal_failed = ~cal_ok /\ w[1] /\ w[2] <= end_date,
                               !.invalid = L.has /\ L.start_date > L.end_date,
                               !.window = Range(w[1], w[2], end_date),
                               !.required = SeqToSet(required_dates)]]
  /\ UNCHANGED <<cache, buffer, store, provDates, limiter, clock, loop, res, calls, fl,
                 appended, since, kept>>

WindowNext == \E cal_ok \in BOOLEAN : Window(cal_ok)

WindowSpec == WindowInit /\ [][WindowNext]_vars

\* ============================================ the provider calls in time
\* time passes in steps of half a rate-limit window
RateTick == TICKERTICK_RATE_LIMIT_WINDOW \div 2
LastSecond == MaxTick * RateTick

RateFrame ==
  UNCHANGED <<cache, buffer, store, provDates, clock, loop, rs, res, calls, fl, obs,
              appended, since, kept>>

\* the while loops of _check_rate_limit: request times a window old or older
\* are taken from the left of the deque
RECURSIVE popleft_expired(_, _)
popleft_expired(request_times, current_time) ==
  IF request_times # <<>> /\ current_time - Head(request_times) >= TICKERTICK_RATE_LIMIT_WINDOW
  THEN popleft_expired(Tail(request_times), current_time)
  ELSE request_times

\* the price fetches begun less than a window ago
BegunOfLate(price_calls, current_time) ==
  SelectSeq(price_calls, LAMBDA t : current_time - t < TICKERTICK_RATE_LIMIT_WINDOW)

Elapse ==
  /\ limiter.now + RateTick <= LastSecond
  /\ limiter' = [limiter EXCEPT !.now = @ + RateTick,
                               !.price_calls = BegunOfLate(@, limiter.now + RateTick)]
  /\ RateFrame

\* StockDataProvider.fetch_data, lines 342-346: the dates are formatted and
\* _fetch_data_with_retry calls AKShare; nothing is waited for before it
FetchPrice ==
  /\ Len(limiter.price_calls) <= TICKERTICK_RATE_LIMIT
  /\ limiter' = [limiter EXCEPT !.price_calls = Append(@, limiter.now)]
  /\ RateFrame

\* TickerTickNewsProvider._check_rate_limit before a news request: at the
\* limit the caller sleeps until the oldest request is a window old
FetchNews ==
  /\ LET current_time == limiter.now
         pruned == popleft_expired(limiter.request_times, current_time)
         wait_time == IF Len(pruned) >= TICKERTICK_RATE_LIMIT
                      THEN TICKERTICK_RATE_LIMIT_WINDOW - (current_time - Head(pruned))
                      ELSE 0
         woken == IF wait_time > 0 THEN current_time + wait_time ELSE current_time
         request_times == IF wait_time > 0 THEN popleft_expired(pruned, woken) ELSE pruned
     IN /\ woken <= LastSecond
        /\ limiter' = [limiter EXCEPT !.now = woken,
                                     !.request_times = Append(request_times, woken),
                                     !.price_calls = BegunOfLate(@, woken)]
  /\ RateFrame

RateNext ==
  \/ Elapse
  \/ FetchPrice
  \/ FetchNews

RateSpec == Init /\ [][RateNext]_vars

\* ================================================ a call that is cancelled
\* the task of a call is cancelled while it awaits the provider:
\* CancelledError is raised at the await of fetch_from_akshare (lines 211,
\* 293, 326).  No handler of get_stock_data catches it (it is not an
\* Exception) and there is no finally block, so the frames gathered in the
\* locals go with the coroutine and the caller gets no result
Cancel(r) ==
  /\ NoHandOver
  /\ rs[r].pc \in {"cfetch", "dfetch", "pfetch"}
  /\ may_run(r, loop)
  /\ Finish(r, [obs[r] EXCEPT !.cancelled = TRUE], TRUE, <<>>)
  /\ UNCHANGED <<cache, buffer, store, provDates, limiter, clock, fl, calls,
                 appended, since, kept>>

CancelNext ==
  \/ Next
  \/ Cancel(1)

CancelSpec == Init /\ [][CancelNext]_vars

\* ============================== calls that find the tiers in any condition
\* the general cache entry and the durable store of the daily key hold any
\* points of the past sessions, each written by the earlier calls and flushes;
\* one more call is made.  Day 2 may be a holiday, and the calendar backend
\* may raise whenever it is asked
TiersInit ==
  /\ \E closed \in HolidaySets : clock = [StoppedClock EXCEPT !.holidays = closed]
  /\ \E in_cache \in SUBSET Sessions, in_store \in SUBSET Sessions :
       /\ cache = [k \in Periods |-> IF k = "daily" THEN FrameOf(in_cache) ELSE <<>>]
       /\ store = [k \in Periods |-> IF k = "daily" THEN FrameOf(in_store) ELSE <<>>]
  /\ buffer = [k \in Periods |-> <<>>]
  /\ provDates \in ProviderSets
  /\ loop = 0
  /\ rs = [r \in Resolvers |-> IdleLocals]
  /\ res = [r \in Resolvers |-> NoResult]
  /\ calls = MaxCalls - 1
  /\ fl = IdleFlusher
  /\ obs = [r \in Resolvers |-> NoObs]
  /\ appended = [k \in Periods |-> DateSet(store[k])]
  /\ since = [k \in Periods |-> {}]
  /\ kept = [k \in Periods |-> DateSet(cache[k])]
  /\ limiter = FreshLimiter

TiersNext ==
  \/ \E a \in CallArgs("daily"), cal_ok \in BOOLEAN : Start(1, "daily", a[1], a[2], a[3], cal_ok)
  \/ \E db_ok \in BOOLEAN : GapQuery(1, db_ok)
  \/ \E fetch_ok \in BOOLEAN : CFetchReturn(1, fetch_ok)
  \/ \E db_ok \in BOOLEAN, cal_ok \in BOOLEAN : DbQuery(1, db_ok, cal_ok)
  \/ \E fetch_ok \in BOOLEAN, cal_ok \in BOOLEAN : DFetchReturn(1, fetch_ok, cal_ok)
  \/ \E fetch_ok \in BOOLEAN : PFetchReturn(1, fetch_ok)
  \/ AppendWrite(1)
  \/ Return(1)

TiersSpec == TiersInit /\ [][TiersNext]_vars

\* ==================================== the attempts of one provider fetch
\* tenacity, stop_after_attempt: no further attempt after this one
stop_one_attempt_later(attempt_number) == attempt_number >= AKSHARE_RETRY_ATTEMPTS + 1

stop_after_attempt(attempt_number) == attempt_number >= AKSHARE_RETRY_ATTEMPTS

\* retry_if_exception_type((RequestException, IOError)); an empty or None
\* answer is turned into an IOError by _fetch_data_with_retry
retry_if_exception_type(outcome) == outcome \in {"request_exception", "io_error", "empty"}

\* what one AKShare call can do
ApiOutcomes == {"answers", "request_exception", "io_error", "other_exception"}

RetryFrame ==
  UNCHANGED <<cache, buffer, store, provDates, clock, loop, rs, res, calls, fl, obs,
              appended, since, kept>>

\* StockDataProvider.fetch_data is called for a window
FetchData(has, s, e) ==
  /\ limiter.fetch.pc = "idle"
  /\ limiter' = [limiter EXCEPT !.fetch = [NoFetch EXCEPT !.pc = "attempt", !.has = has,
                                                          !.start_date = s, !.end_date = e,
                                                          !.attempt_number = 1]]
  /\ RetryFrame

\* one attempt of _fetch_data_with_retry and what tenacity and fetch_data make
\* of its outcome: the frame is returned, the attempt is repeated after the
\* wait, or the exception (RetryError after the last attempt) is caught by
\* fetch_data, which returns None
Attempt(api) ==
  /\ limiter.fetch.pc = "attempt"
  /\ LET f == limiter.fetch
         df == fetch_from_akshare(provDates, f.has, f.start_date, f.end_date, TRUE)
         outcome == IF api = "answers" THEN (IF df = <<>> THEN "empty" ELSE "data") ELSE api
         f1 == [f EXCEPT !.outcomes = Append(@, outcome)]
     IN limiter' = [limiter EXCEPT !.fetch =
          IF outcome = "data"
          THEN [f1 EXCEPT !.pc = "done", !.returned = "frame", !.df = df]
          ELSE IF retry_if_exception_type(outcome) /\ ~stop_after_attempt(f.attempt_number)
          THEN [f1 EXCEPT !.attempt_number = @ + 1]
          ELSE [f1 EXCEPT !.pc = "done", !.returned = "none"]]
  /\ RetryFrame

RetryNext ==
  \/ \E a \in CallArgs("daily") : FetchData(a[1], a[2], a[3])
  \/ \E api \in ApiOutcomes : Attempt(api)

RetrySpec == Init /\ [][RetryNext]_vars

\* ================= the scheduled flush and a flush started by /persist-data
\* the buffer holds fragments of earlier calls, the durable store rows of
\* earlier flushes
FlushersInit ==
  /\ clock = StoppedClock
  /\ \E in_daily \in SUBSET Sessions \ {{}}, in_hourly \in {{}, {1}}, in_store \in SUBSET {1, 2} :
       /\ buffer = [k \in Periods |-> FrameOf(IF k = "daily" THEN in_daily ELSE in_hourly)]
       /\ store = [k \in Periods |-> IF k = "daily" THEN FrameOf(in_store) ELSE <<>>]
       /\ appended = [k \in Periods |-> DateSet(buffer[k]) \cup DateSet(store[k])]
       /\ since = [k \in Periods |-> DateSet(buffer[k])]
  /\ cache = [k \in Periods |-> <<>>]
  /\ provDates = Sessions
  /\ loop = 0
  /\ rs = [r \in Resolvers |-> IdleLocals]
  /\ res = [r \in Resolvers |-> NoResult]
  /\ calls = 0
  /\ fl = IdleFlusher
  /\ obs = [r \in Resolvers |-> NoObs]
  /\ kept = [k \in Periods |-> {}]
  /\ limiter = FreshLimiter

ManualFrame ==
  UNCHANGED <<cache, provDates, limiter, clock, loop, rs, res, calls, obs, appended, kept>>

\* main.py 208-217 and get_pending_data_from_redis: the background task of
\* the endpoint starts persist_pending_data in a worker thread
ManualScan(ord) ==
  /\ fl.manual.pc = "idle"
  /\ LET keys == SelectSeq(ord, LAMBDA k : buffer[k] # <<>>)
         pending_data == [i \in 1..Len(keys) |-> [period |-> keys[i], dataframe |-> buffer[keys[i]]]]
     IN /\ pending_data # <<>>
        /\ fl' = [fl EXCEPT !.manual = [IdleManual EXCEPT !.pc = "persist",
                                                          !.pending_data = pending_data]]
  /\ UNCHANGED <<buffer, store, since>>
  /\ ManualFrame

\* lines 269-327 in the worker thread: one iteration, one transaction
ManualKey(outcome) ==
  /\ fl.manual.pc = "persist"
  /\ LET m == fl.manual
         item == Head(m.pending_data)
         k == item.period
         price_data == prepare_price_data(k, item.dataframe)
         up == batch_upsert_prices(store[k], price_data, outcome # "upsert_error")
         committed == outcome # "commit_error"
     IN /\ price_data = <<>> => outcome = "ok"
        /\ store' = IF committed THEN [store EXCEPT ![k] = up[1]] ELSE store
        /\ fl' = [fl EXCEPT !.manual =
                    [m EXCEPT !.pending_data = Tail(@),
                              !.processed_keys = mark_processed(@, k),
                              !.pc = IF Tail(m.pending_data) = <<>> THEN "clear" ELSE "persist"]]
  /\ UNCHANGED <<buffer, since>>
  /\ ManualFrame

\* lines 333-339 in the worker thread
ManualClear ==
  /\ fl.manual.pc = "clear"
  /\ LET m == fl.manual
         k == Head(m.processed_keys)
     IN /\ buffer' = [buffer EXCEPT ![k] = <<>>]
        /\ since' = [since EXCEPT ![k] = {}]
        /\ fl' = [fl EXCEPT !.manual =
                    [m EXCEPT !.processed_keys = Tail(@),
                              !.pc = IF Tail(m.processed_keys) = <<>> THEN "idle" ELSE "clear"]]
  /\ UNCHANGED store
  /\ ManualFrame

FlushersNext ==
  \/ \E ord \in KeyOrders : FlushScan(ord)
  \/ \E outcome \in Outcomes : FlushKey(outcome)
  \/ FlushClear
  \/ FlushReturn
  \/ \E ord \in KeyOrders : ManualScan(ord)
  \/ \E outcome \in Outcomes : ManualKey(outcome)
  \/ ManualClear

FlushersSpec == FlushersInit /\ [][FlushersNext]_vars

\* ================================= an error while the cache is processed
\* lines 154-244: an exception raised inside the try block of the cache
\* section, here before a gap is looked up, is logged by the handler of line
\* 243 and the call goes on at line 250 with the durable-store query of the
\* whole window, as if the cache had held nothing
CacheError(r) ==
  /\ NoHandOver
  /\ rs[r].pc = "gap"
  /\ may_run(r, loop)
  /\ rs' = [rs EXCEPT ![r] = [@ EXCEPT !.pc = "dbq", !.missing_ranges = <<>>,
                                       !.still_missing_ranges = <<>>,
                                       !.all_newly_fetched_data = <<>>,
                                       !.data_from_remote_only = <<>>]]
  /\ Continue(r, [obs[r] EXCEPT !.path = "cache_error"])
  /\ UNCHANGED <<cache, buffer, store, provDates, limiter, clock, loop, fl, calls,
                 appended, since, kept>>

FallThroughNext ==
  \/ TiersNext
  \/ CacheError(1)

FallThroughSpec == TiersInit /\ [][FallThroughNext]_vars

\* ===================== a call, and a save and an append taken by themselves
\* the daily entries hold points of earlier calls; a call is made, and a
\* caller stands before save_to_redis (of the general cache or of the
\* buffer) or before _append_to_pending_save with a series that may be empty
Standing == {"idle", "saving_cache", "saving_pending", "appending"}

FrameInit ==
  /\ clock = StoppedClock
  /\ \E in_cache \in SUBSET Sessions, in_store \in {{}, {1}}, in_buffer \in {{}, {1}} :
       /\ cache = [k \in Periods |-> IF k = "daily" THEN FrameOf(in_cache) ELSE <<>>]
       /\ store = [k \in Periods |-> IF k = "daily" THEN FrameOf(in_store) ELSE <<>>]
       /\ buffer = [k \in Periods |-> IF k = "daily" THEN FrameOf(in_buffer) ELSE <<>>]
  /\ provDates = Sessions
  /\ loop = 0
  /\ \E pc \in Standing, data \in {<<>>, FrameOf({2})} :
       rs = [r \in Resolvers |->
               IF r = 2 /\ pc # "idle"
               THEN [IdleLocals EXCEPT !.pc = pc, !.period = "daily", !.new_data = data]
               ELSE IdleLocals]
  /\ res = [r \in Resolvers |-> NoResult]
  /\ calls = MaxCalls - 1
  /\ fl = IdleFlusher
  /\ obs = [r \in Resolvers |-> NoObs]
  /\ appended = [k \in Periods |-> DateSet(store[k]) \cup DateSet(buffer[k])]
  /\ since = [k \in Periods |-> DateSet(buffer[k])]
  /\ kept = [k \in Periods |-> DateSet(cache[k])]
  /\ limiter = FreshLimiter

\* CacheManager.save_to_redis, lines 178-184 and the SETEX that follows
SaveCall(r) ==
  /\ NoHandOver
  /\ rs[r].pc \in {"saving_cache", "saving_pending"}
  /\ LET L == rs[r]
         written == IF L.new_data = <<>> THEN 0 ELSE 1
     IN /\ IF L.pc = "saving_cache"
           THEN /\ cache' = save_to_redis(cache, L.period, L.new_data)
                /\ kept' = [kept EXCEPT ![L.period] = DateSet(cache'[L.period])]
                /\ UNCHANGED <<buffer, appended, since>>
           ELSE /\ buffer' = save_to_redis(buffer, L.period, L.new_data)
                /\ appended' = [appended EXCEPT ![L.period] = @ \cup DateSet(L.new_data)]
                /\ since' = [since EXCEPT ![L.period] = DateSet(buffer'[L.period])]
                /\ UNCHANGED <<cache, kept>>
        /\ rs' = [rs EXCEPT ![r] = [IdleLocals EXCEPT !.pc = "saved"]]
        /\ Continue(r, [obs[r] EXCEPT !.path = "save_to_redis", !.cache_writes = written])
  /\ UNCHANGED <<store, provDates, limiter, clock, loop, fl, calls>>

FrameNext ==
  \/ TiersNext
  \/ SaveCall(2)
  \/ NoHandOver /\ AppendCall(2)
  \/ AppendWrite(2)
  \/ Return(2)

FrameSpec == FrameInit /\ [][FrameNext]_vars

\* =============================================================== claims
InWindow(S, w) == {d \in S : w[1] => (w[2] <= d /\ d <= w[3])}
Covered(ranges) == {d \in Dates : \E rg \in ranges : rg[1] => (rg[2] <= d /\ d <= rg[3])}
FailedKeys == {k \in Periods : fl.outcome[k] \in {"upsert_error", "commit_error"}}
Upserted(k) == DateSet(prepare_price_data(k, fl.snapshot[k])) \subseteq DateSet(store[k])
ProcessedAll(k) ==
  \E i \in 1..Len(fl.details) :
    fl.details[i].period = k /\ fl.details[i].rows_processed = Len(fl.snapshot[k])
Storable ==
  {k \in Periods : prepare_price_data(k, <<[date |-> 1, val |-> ProviderValue]>>) # <<>>}
NobodyRunning == \A r \in Resolvers : rs[r].pc \in {"idle", "done"}
Result(r) == res[r]
Previous(r) == [none |-> obs[r].prev_none, df |-> obs[r].prev_df]
FirstWasComplete(r) ==
  ~obs[r].prev_none /\ obs[r].required \subseteq DateSet(obs[r].prev_df)

\* C1: at-least-once delivery under interleaving.  Whenever a flush cycle
\* whose upsert of a key processed every row it had read, and committed,
\* deletes that key's buffer entry, every point the entry holds at that
\* moment is in the durable store: a point appended after the flusher read
\* the entry and before it clears the key is not lost.
C1_AppendDuringFlushNotLost ==
  [][\A k \in Periods :
       (fl.outcome[k] = "ok" /\ ProcessedAll(k) /\ buffer[k] # <<>> /\ buffer'[k] = <<>>)
         => DateSet(buffer[k]) \subseteq DateSet(store'[k])]_vars

\* C2: the flusher clears a key's buffer entry only on success.  At the end
\* of a flush cycle every key it cleared has the rows it prepared from the
\* entry in the durable store, and a key whose upsert (or transaction)
\* failed was not cleared.
C2_ClearedOnlyOnSuccess ==
  fl.pc = "done" =>
    \A k \in Periods :
      /\ k \in fl.cleared => Upserted(k)
      /\ k \in FailedKeys => k \notin fl.cleared

\* C3: per-key isolation in a flush cycle.  At the end of a cycle every key
\* whose persisting failed is recorded in failed_count and errors, and every
\* other key of the cycle has the rows prepared for it in the durable store
\* and is cleared.
C3_FailureRecordedOthersPersisted ==
  fl.pc = "done" =>
    /\ fl.failed_count = Cardinality(FailedKeys)
    /\ SeqToSet(fl.errors) = FailedKeys
    /\ \A k \in Periods : fl.outcome[k] = "ok" => (Upserted(k) /\ k \in fl.cleared)

\* C4: eventual convergence, as the state it must lead to.  Once the buffer
\* is drained (every entry cleared), the flusher is idle and no call is in
\* progress, nothing is left that could still carry a point to the durable
\* store; so every point ever appended to a key whose rows the flusher can
\* prepare is in the durable store by then.
C4_DrainedMeansStored ==
  (fl.pc = "idle" /\ NobodyRunning /\ \A k \in Periods : buffer[k] = <<>>)
    => \A k \in Storable : appended[k] \subseteq DateSet(store[k])

\* C5: concurrent Appends to one buffer key lose no update.  Every point a
\* call has written to a buffer entry since the entry was last deleted is
\* in the entry, whatever the interleaving of the calls.
C5_NoLostAppend ==
  \A k \in Periods : since[k] \subseteq DateSet(buffer[k])

\* C5 witness: a call that overlapped another one has appended its fragment
\* to an entry that also holds points of another fragment
C5_Witness ==
  \E r \in Resolvers :
    /\ obs[r].done /\ obs[r].raced /\ obs[r].fragment # {}
    /\ since[obs[r].args[1]] \ obs[r].fragment # {}
    /\ since[obs[r].args[1]] \subseteq DateSet(buffer[obs[r].args[1]])

\* C6: concurrent Resolve calls lose no general-cache update.  When no call
\* is in progress, every provider point the calls wrote to a cache entry
\* since the entry last expired is in the entry.
C6_NoLostCacheUpdate ==
  NobodyRunning => \A k \in Periods : kept[k] \subseteq DateSet(cache[k])

\* C7 as stated: a call repeated at once, with nothing changed in between,
\* returns the result of the first call and makes no provider call (stated
\* for a first call that returned a series, not None).
C7_Idempotent ==
  \A r \in Resolvers :
    (obs[r].done /\ obs[r].follow /\ ~obs[r].prev_none)
      => (Result(r) = Previous(r) /\ obs[r].provider_calls = 0)

\* C7 amended: a call repeated at once, with nothing changed in between and
\* no cache expiry since the first call began, returns the result of the
\* first call and makes no provider call, provided the first call returned a
\* non-error result holding every required point of the clamped window.
C7_IdempotentAfterCompleteResult ==
  \A r \in Resolvers :
    (obs[r].done /\ obs[r].follow /\ FirstWasComplete(r))
      => (Result(r) = Previous(r) /\ obs[r].provider_calls = 0)

\* C7 witness: the repetition of a call that fetched a whole window is
\* answered from the cache
C7_Witness ==
  \E r \in Resolvers :
    /\ obs[r].done /\ obs[r].follow /\ FirstWasComplete(r)
    /\ Cardinality(obs[r].required) >= 2
    /\ obs[r].path = "cache_full"
    /\ Result(r) = Previous(r)

\* C8: a failed provider fetch of one sub-range does not fail the call.  A
\* call on a gap path (cache partial or durable-store partial) with a failed
\* sub-range fetch returns a non-error series made of exactly the points of
\* the window it obtained from the cache, the durable store and the other
\* fetches; a required point is absent only if it lies in a failed
\* sub-range or the provider has no row for it.
C8_FailedSubRangeOmitted ==
  \A r \in Resolvers :
    (obs[r].done /\ obs[r].path \in {"cache_partial", "db_partial"}
       /\ obs[r].failed_fetches # {})
      => /\ ~Result(r).none
         /\ DateSet(Result(r).df) = InWindow(obs[r].obtained, obs[r].window)
         /\ obs[r].required \ DateSet(Result(r).df)
              \subseteq Covered(obs[r].failed_fetches) \cup (Dates \ provDates)

\* C8 witness: a cache-partial call with two gaps, one fetched and one
\* failed, has returned the cached and the fetched points
C8_Witness ==
  \E r \in Resolvers :
    /\ obs[r].done /\ obs[r].path = "cache_partial"
    /\ obs[r].failed_fetches # {}
    /\ obs[r].asked \ obs[r].failed_fetches # {}
    /\ ~Result(r).none
    /\ Cardinality(DateSet(Result(r).df)) >= 2

\* C9: a durable-store query failure is handled as "nothing found".  Every
\* range whose durable-store query failed during a call (a cache gap, or
\* the whole window) has been asked of the provider by the time the call
\* returns.
C9_DbFailureFallsThrough ==
  \A r \in Resolvers : obs[r].done => obs[r].db_failed \subseteq obs[r].asked

\* C9 witness: a call whose durable-store query failed has returned the
\* points the provider gave for that range
C9_Witness ==
  \E r \in Resolvers :
    /\ obs[r].done /\ obs[r].db_failed # {}
    /\ obs[r].db_failed \subseteq obs[r].asked
    /\ ~Result(r).none /\ Result(r).df # <<>>

\* C10: Resolve prefers a partial result to a failure.  With no failure of
\* a durable-store query: when the cache or the durable store held a point
\* of the requested window at the start of the call, the call returns a
\* non-error result holding those points; and it returns None only for an
\* invalid window or when cache, durable store and provider gave nothing.
C10_PartialResultPreferred ==
  \A r \in Resolvers :
    (obs[r].done /\ ~obs[r].db_error)
      => /\ obs[r].held # {}
              => (~Result(r).none /\ obs[r].held \subseteq DateSet(Result(r).df))
         /\ Result(r).none => (obs[r].invalid \/ obs[r].obtained = {})


\* C11: only provider-sourced points enter the write-behind buffer.  The
\* point-keys a call appends to the buffer are point-keys the provider
\* returned during that call, and none of them is one the call read from the
\* general cache or from the durable store.
C11_OnlyProviderPointsBuffered ==
  \A r \in Resolvers :
    obs[r].done =>
      /\ obs[r].fragment \subseteq obs[r].fetched
      /\ obs[r].fragment \cap (DateSet(obs[r].cached) \cup DateSet(obs[r].from_db)) = {}

\* C11 witness: a call that completed a durable-store partial from the
\* provider appended the provider's points, not the store's
C11_Witness ==
  \E r \in Resolvers :
    /\ obs[r].done /\ obs[r].path = "db_partial"
    /\ obs[r].from_db # <<>>
    /\ obs[r].fragment # {} /\ obs[r].fragment = obs[r].fetched
    /\ obs[r].fragment \subseteq DateSet(buffer[obs[r].args[1]])

C13_CacheCompleteFastPath ==
  \A r \in Resolvers :
    (obs[r].done /\ obs[r].cached # <<>> /\ obs[r].required \subseteq DateSet(obs[r].cached))
      => /\ obs[r].path \in {"cache_full", "cache_norequired"}
         /\ ~Result(r).none
         /\ Result(r).df = filter_dataframe_by_date(obs[r].cached, obs[r].window[1],
                                                     obs[r].window[2], obs[r].window[3])
         /\ obs[r].db_queries = 0 /\ obs[r].provider_calls = 0
         /\ obs[r].cache_writes = 0 /\ obs[r].appends = 0
         /\ cache[obs[r].args[1]] = obs[r].cached

\* C13 witness: a window of two sessions answered from a cache entry that
\* holds more than the window
C13_Witness ==
  \E r \in Resolvers :
    /\ obs[r].done /\ obs[r].path = "cache_full"
    /\ Cardinality(obs[r].required) >= 2
    /\ DateSet(obs[r].cached) \ obs[r].required # {}
    /\ DateSet(Result(r).df) = obs[r].required
    /\ obs[r].db_queries = 0 /\ obs[r].provider_calls = 0

\* C14: a call that finds no general cache entry and gets every required
\* point of its window from the durable store writes the store's result to
\* the general cache exactly once, makes no provider call, appends nothing to
\* the write-behind buffer and returns that result filtered to the window.
C14_StoreCompleteFillsCache ==
  \A r \in Resolvers :
    (/\ obs[r].done /\ obs[r].cache_reads = 1 /\ obs[r].cached = <<>>
     /\ obs[r].from_db # <<>> /\ obs[r].required \subseteq DateSet(obs[r].from_db))
      => /\ obs[r].path = "db_full"
         /\ obs[r].db_queries = 1
         /\ obs[r].cache_writes = 1
         /\ cache[obs[r].args[1]] = obs[r].from_db
         /\ obs[r].provider_calls = 0
         /\ obs[r].appends = 0 /\ obs[r].fragment = {}
         /\ ~Result(r).none
         /\ Result(r).df = filter_dataframe_by_date(obs[r].from_db, obs[r].window[1],
                                                     obs[r].window[2], obs[r].window[3])

\* C14 witness: after the cache entry ran out, a window of two sessions is
\* answered from the durable store and cached again
C14_Witness ==
  \E r \in Resolvers :
    /\ obs[r].done /\ obs[r].path = "db_full"
    /\ obs[r].cached = <<>>
    /\ Cardinality(obs[r].required) >= 2
    /\ DateSet(cache[obs[r].args[1]]) = obs[r].required
    /\ obs[r].provider_calls = 0 /\ obs[r].appends = 0

\* C15: a call with start and end given (by the caller, or by the default
\* window of a daily call) whose required point set (of the
\* clamped window) is empty returns an empty series at once and as a
\* non-error: it reads no cache entry, queries no durable store, calls no
\* provider and writes neither the cache nor the buffer.
C15_EmptyRequiredReturnsEmpty ==
  \A r \in Resolvers :
    (obs[r].done /\ (obs[r].args[2] \/ obs[r].window[1]) /\ obs[r].required = {})
      => /\ obs[r].path = "early"
         /\ ~Result(r).none /\ Result(r).df = <<>>
         /\ obs[r].cache_reads = 0 /\ obs[r].db_queries = 0
         /\ obs[r].provider_calls = 0
         /\ obs[r].cache_writes = 0 /\ obs[r].appends = 0

\* C15 witness: a daily window that holds today alone is empty once it is
\* clamped to the last closed session, and is answered with an empty series
\* although the cache holds points
C15_Witness ==
  \E r \in Resolvers :
    /\ obs[r].done /\ obs[r].args = <<"daily", TRUE, MaxDate, MaxDate>>
    /\ obs[r].required = {}
    /\ cache["daily"] # <<>>
    /\ ~Result(r).none /\ Result(r).df = <<>>
    /\ obs[r].cache_reads = 0

\* ------------------------------------------------- the detector's result
Detected == rs[1].pc = "detected"
RequiredSet == SeqToSet(rs[1].required_dates)
ObservedSet == DateSet(rs[1].redis_data)
SafeDate == rs[1].market_aware_date
Ranges == rs[1].missing_ranges
IsSortedList(s) == \A i, j \in 1..Len(s) : i < j => s[i] < s[j]
SortedRequired == IsSortedList(rs[1].required_dates)
CoveredKeys == {d \in RequiredSet : \E i \in 1..Len(Ranges) : Ranges[i][1] <= d /\ d <= Ranges[i][2]}
RequiredUpToSafe == {d \in RequiredSet : d <= SafeDate}
\* closed ranges in ascending order, pairwise disjoint, each beginning at a
\* missing required key, two neighbours parted by an observed required key
MaximalRuns ==
  /\ \A i \in 1..Len(Ranges) :
       /\ Ranges[i][1] <= Ranges[i][2]
       /\ Ranges[i][1] \in RequiredSet \ ObservedSet
       /\ Ranges[i][2] \in (RequiredSet \ ObservedSet) \cup {SafeDate}
  /\ \A i, j \in 1..Len(Ranges) : i < j =>
       /\ Ranges[i][2] < Ranges[j][1]
       /\ \E d \in RequiredSet \cap ObservedSet : Ranges[i][2] < d /\ d < Ranges[j][1]

\* C16 as stated: for a sorted required list the ranges are the maximal runs
\* of missing required keys, and the required keys they cover together with
\* the observed keys are exactly the required keys up to the safe-as-of date.
C16_RangesAndObservedAreRequired ==
  (Detected /\ SortedRequired)
    => /\ MaximalRuns
       /\ CoveredKeys \cup ObservedSet = RequiredUpToSafe

\* C16 amended: for a sorted required list the ranges are the maximal runs of
\* missing required keys (cut at the safe-as-of date); the required keys they
\* cover are exactly the required keys up to the safe-as-of date that are not
\* observed, so that together with the observed ones among these they are
\* exactly the required keys up to the safe-as-of date.
C16_RangesAreTheMissingRuns ==
  (Detected /\ SortedRequired)
    => /\ MaximalRuns
       /\ CoveredKeys = RequiredUpToSafe \ ObservedSet
       /\ CoveredKeys \cup (ObservedSet \cap RequiredUpToSafe) = RequiredUpToSafe

\* C16 witness: required 1..4, observed {2} and one key outside the required
\* keys up to the safe-as-of date 3 give (1,1) and (3,3)
C16_Witness ==
  /\ Detected
  /\ rs[1].required_dates = <<1, 2, 3, 4>>
  /\ ObservedSet = {2, 4}
  /\ SafeDate = 3
  /\ Ranges = << <<1, 1>>, <<3, 3>> >>

C18_OrderOfRequiredIrrelevant ==
  Detected =>
    SeqToSet(Ranges) = SeqToSet(find_missing_date_ranges(sorted(RequiredSet), ObservedSet,
                                                         SafeDate))

\* ---------------------------------------------------- the merged series
Rows(df) == {df[i] : i \in 1..Len(df)}
Merged(r) == rs[r].pc = "merged"
Fragment(r) == rs[r].new_data
Held == rs[1].db_data
OnlyMerged(r) == Merged(r) /\ \A q \in Resolvers \ {r} : ~Merged(q)
Conflict(a, b) == \E x \in Rows(a), y \in Rows(b) : x.date = y.date /\ x.val # y.val
Shared(a, b) == DateSet(a) \cap DateSet(b)

\* C19: Merge keeps the most recently fetched value on conflict.  Once a
\* fragment has been merged into the cache entry, into the durable-store
\* partial and into the buffered series, each of them holds every point of
\* the fragment with the fragment's values.
C19_NewestValueKept ==
  \A r \in Resolvers :
    /\ Merged(r) => Rows(Fragment(r)) \subseteq Rows(rs[r].combined_data)
    /\ OnlyMerged(r) =>
         /\ Rows(Fragment(r)) \subseteq Rows(cache["daily"])
         /\ Rows(Fragment(r)) \subseteq Rows(buffer["daily"])

\* what the cache entry and the buffered series hold when the fragments of
\* a and b arrived in this order, and when they were merged with each other
\* first
CacheInOrder(a, b) == merge_with_cache(merge_with_cache(Held, Fragment(a)), Fragment(b))
BufferInOrder(a, b) == pending_combined(pending_combined(Held, Fragment(a)), Fragment(b))
CacheGrouped(a, b) == merge_with_cache(Held, merge_with_cache(Fragment(a), Fragment(b)))
BufferGrouped(a, b) == pending_combined(Held, pending_combined(Fragment(a), Fragment(b)))
BothMerged == \A r \in Resolvers : Merged(r)

\* C20 as stated: Merge is associative and commutative in its final content.
\* Once both fragments are merged, the cache entry and the buffered series
\* are what either arrival order and either grouping gives, values included.
C20_OrderAndGroupingIrrelevant ==
  BothMerged =>
    \A a, b \in Resolvers : a # b =>
      /\ cache["daily"] = CacheInOrder(a, b) /\ cache["daily"] = CacheGrouped(a, b)
      /\ buffer["daily"] = BufferInOrder(a, b) /\ buffer["daily"] = BufferGrouped(a, b)

\* C20 amended: Merge is associative, and commutative in the point-keys of
\* its final content; the final series is the same in either arrival order
\* and grouping, values included, when the two fragments agree on the
\* point-keys they share (when they do not, the value kept for such a
\* point-key depends on the arrival order).
C20_OrderIrrelevantWithoutConflict ==
  BothMerged =>
    /\ DateSet(cache["daily"]) = DateSet(Held) \cup DateSet(Fragment(1)) \cup DateSet(Fragment(2))
    /\ DateSet(buffer["daily"]) = DateSet(cache["daily"])
    /\ \E a, b \in Resolvers :
         /\ a # b
         /\ cache["daily"] = CacheInOrder(a, b) /\ cache["daily"] = CacheGrouped(a, b)
         /\ buffer["daily"] = BufferInOrder(a, b) /\ buffer["daily"] = BufferGrouped(a, b)
    /\ ~Conflict(Fragment(1), Fragment(2)) =>
         \A a, b \in Resolvers : a # b =>
           /\ cache["daily"] = CacheInOrder(a, b) /\ cache["daily"] = CacheGrouped(a, b)
           /\ buffer["daily"] = BufferInOrder(a, b) /\ buffer["daily"] = BufferGrouped(a, b)

\* C20 witness: two fragments that share a point-key with one value, one of
\* them holding a point-key more, are merged in both orders into one series
C20_Witness ==
  /\ BothMerged
  /\ Shared(Fragment(1), Fragment(2)) # {}
  /\ ~Conflict(Fragment(1), Fragment(2))
  /\ Fragment(1) # Fragment(2)
  /\ Held # <<>> /\ Shared(Held, Fragment(1)) = {}
  /\ cache["daily"] = CacheInOrder(1, 2) /\ cache["daily"] = CacheInOrder(2, 1)
  /\ buffer["daily"] = BufferInOrder(1, 2) /\ buffer["daily"] = BufferInOrder(2, 1)
\* ------------------------------------------------------ one append call
\* the step in which an _append_to_pending_save call of r is over
AppendOver(r) == rs[r].pc \in {"appending", "append"} /\ rs'[r].pc = "done"
EachKeyOnce(df) == Len(df) = Cardinality(DateSet(df))

\* C21: an Append of a non-empty fragment whose point-keys are disjoint from
\* the buffered ones leaves the buffer entry holding exactly the rows of
\* both, each point-key once; no buffered point is lost.
C21_DisjointAppendIsUnion ==
  [][\A r \in Resolvers :
       (/\ AppendOver(r)
        /\ rs[r].new_data # <<>>
        /\ Shared(buffer[rs[r].period], rs[r].new_data) = {})
         => /\ Rows(buffer'[rs[r].period])
                 = Rows(buffer[rs[r].period]) \cup Rows(rs[r].new_data)
            /\ EachKeyOnce(buffer'[rs[r].period])]_vars
\* ------------------------------------------------- the clock's answers
Answered == clock.answers >= 1
AnsweredTwice == clock.answers >= 2
PriorSession(d) == Latest(schedule(1, d - 1))
ClosedForGood(a) == IsSession(a.on) /\ a.at >= MarketClose + GraceTicks
SameSessionDay == clock.last.on = clock.before.on /\ IsSession(clock.last.on)

\* C22: when every calendar lookup answers, the clock returns today's date
\* exactly when today has a session that closed at least the grace period
\* ago; before the close, within the grace period and on a day without a
\* session it returns the most recent prior session date.
C22_TodayOnlyAfterGrace ==
  (Answered /\ ~clock.last.failed)
    => IF ClosedForGood(clock.last)
       THEN clock.last.date = clock.last.on
       ELSE clock.last.date = PriorSession(clock.last.on)

\* C22 witness: asked at the very end of the grace period of a session, the
\* clock returns today; asked an hour earlier it returned the session before
C22_Witness ==
  /\ AnsweredTwice /\ ~clock.last.failed /\ ~clock.before.failed
  /\ SameSessionDay
  /\ clock.before.at = MarketClose /\ clock.before.date = PriorSession(clock.last.on)
  /\ clock.last.at = MarketClose + GraceTicks /\ clock.last.date = clock.last.on

C24_FailureFallsBackBeforeToday ==
  (Answered /\ clock.last.failed) => clock.last.date < clock.last.on
\* ------------------------------------------------- the window of a call
Windowed == rs[1].pc = "window"
\* the last session of the week of a day
WeekLastSession(d) == Latest(schedule(week_monday(d), week_monday(d) + 6))
RangeDays(ranges) ==
  {d \in Calendar : \E i \in 1..Len(ranges) : ranges[i][1] <= d /\ d <= ranges[i][2]}

\* C25: an in-progress week is never treated as closed.  For a weekly call,
\* with the default window or with explicit dates, every required date and
\* every session of a range to fetch belongs to a week whose last session is
\* not later than the safe-as-of date.
C25_NoDateOfOpenWeek ==
  (Windowed /\ rs[1].period = "weekly")
    => \A d \in SeqToSet(rs[1].required_dates) \cup
                {x \in RangeDays(rs[1].missing_ranges) : IsSession(x)} :
         WeekLastSession(d) <= rs[1].market_aware_date
\* ------------------------------------------------- what a call was asked
Asked(r) == obs[r].args
ValidWindowWithSessions(r) ==
  /\ Asked(r)[2] /\ ~obs[r].invalid
  /\ schedule(obs[r].window[2], obs[r].window[3]) # {}

\* C26: for hourly as for daily granularity the required point set of a
\* window is every session date in it, so a call over a window (clamped to
\* the safe-as-of date) that holds sessions has a non-empty required set and
\* goes on to read the cache.
C26_HourlyRequiredAsDaily ==
  \A r \in Resolvers :
    (obs[r].done /\ Asked(r)[1] \in {"daily", "hourly"} /\ ValidWindowWithSessions(r))
      => /\ obs[r].required = schedule(obs[r].window[2], obs[r].window[3])
         /\ obs[r].path # "early"
         /\ obs[r].cache_reads = 1

\* C27: a call with a start date after the end date returns an error (None),
\* not an empty or adjusted series.
C27_InvalidWindowIsAnError ==
  \A r \in Resolvers : (obs[r].done /\ obs[r].invalid) => Result(r).none

\* C28: a call without dates gets, for each of the three granularities, a
\* window with a start and an end date, start <= end, the end not later than
\* the safe-as-of date.
C28_DefaultWindowForEveryPeriod ==
  (Windowed /\ ~Asked(1)[2])
    => /\ obs[1].window[1]
       /\ obs[1].window[2] <= obs[1].window[3]
       /\ obs[1].window[3] <= rs[1].market_aware_date
\* C29: the price fetches pass through the sliding-window rate limiter: of
\* the price fetches begun, at most TICKERTICK_RATE_LIMIT lie within one
\* window of TICKERTICK_RATE_LIMIT_WINDOW seconds.
C29_PriceFetchesRateLimited ==
  Len(limiter.price_calls) <= TICKERTICK_RATE_LIMIT
\* C30: cancellation keeps the fragments already received.  A call that was
\* cancelled while a provider fetch was in flight has appended to the
\* write-behind buffer every point-key an earlier fetch of it had returned.
C30_CancelledKeepsReceived ==
  \A r \in Resolvers :
    (obs[r].done /\ obs[r].cancelled) => obs[r].fetched \subseteq obs[r].fragment
\* ------------------------------------------------- what a call fetched
SafeAsOf == get_market_aware_current_date(Today, FullyClosed)
OnGapPath(r) == obs[r].path \in {"cache_partial", "db_partial"}
HeldByTiers(r) == DateSet(obs[r].cached) \cup DateSet(obs[r].from_db)
RangesOf(missing_ranges) ==
  {Range(TRUE, missing_ranges[i][1], missing_ranges[i][2]) : i \in 1..Len(missing_ranges)}

\* C31: Resolve fetches from the provider only what is still missing.  When
\* a call on a gap path returns, every range it passed to the provider begins
\* and ends at a required point-key and holds no required point-key that the
\* cache entry or an answer of the durable store held; the ranges leave out
\* no missing required session; and when the durable store answered nothing
\* on the cache path, the ranges are the gaps of the cache, each fetched whole
\* in one call.
C31_FetchesOnlyWhatIsMissing ==
  \A r \in Resolvers :
    (obs[r].done /\ OnGapPath(r))
      => /\ \A rg \in obs[r].asked :
              {rg[2], rg[3]} \subseteq obs[r].required \ HeldByTiers(r)
         /\ Covered(obs[r].asked) \cap obs[r].required \cap HeldByTiers(r) = {}
         /\ {d \in obs[r].required \ HeldByTiers(r) : IsSession(d)} \subseteq Covered(obs[r].asked)
         /\ (obs[r].path = "cache_partial" /\ obs[r].from_db = <<>>)
              => obs[r].asked = RangesOf(find_missing_date_ranges(sorted(obs[r].required),
                                                                   DateSet(obs[r].cached), SafeAsOf))

\* C31 witness: the cache held day 2 and the durable store day 1; of the gaps
\* (1,1) and (3,3) of the window of days 1 to 3 the first came from the
\* durable store, and the provider was asked for (3,3) alone
C31_Witness ==
  \E r \in Resolvers :
    /\ obs[r].done /\ obs[r].path = "cache_partial"
    /\ obs[r].required = {1, 2, 3}
    /\ DateSet(obs[r].cached) \cap obs[r].required = {2}
    /\ DateSet(obs[r].from_db) = {1}
    /\ obs[r].asked = {Range(TRUE, 3, 3)}
\* ------------------------------------------- the end dates a call passes on
\* the end date of the query or fetch the coroutine is about to make, or is
\* waiting for; NoDate when the call passes no end date
EndDatePassed(r) ==
  LET L == rs[r]
  IN CASE L.pc \in {"dbq", "pfetch"} -> IF L.has THEN L.end_date ELSE NoDate
       [] L.pc \in {"gap", "dfetch"} -> Head(L.missing_ranges)[2]
       [] L.pc = "cfetch" -> Head(L.still_missing_ranges)[2]
       [] OTHER -> NoDate

\* C32: whenever Resolve queries the durable store or calls the provider with
\* an end date, that end date is not later than the safe-as-of date computed
\* for the call, also when the caller asked for an end date after it.
C32_EndDateNotAfterSafeAsOf ==
  \A r \in Resolvers : EndDatePassed(r) <= rs[r].market_aware_date

\* C32 witness: the caller asked for days up to today, which is after the
\* safe-as-of date, and the provider is being asked for the window that ends
\* at the safe-as-of date
C32_Witness ==
  \E r \in Resolvers :
    /\ rs[r].pc = "pfetch"
    /\ obs[r].args[2] /\ obs[r].args[4] > rs[r].market_aware_date
    /\ EndDatePassed(r) = rs[r].market_aware_date
\* --------------------------------------------- the weekly required points
\* the sessions that are the last session of their week in the calendar
WeekEnds == {d \in Calendar : IsSession(d) /\ d = WeekLastSession(d)}

\* C33: for weekly granularity the required dates of a window, when the
\* calendar answers, are the last sessions of the weeks of the trading
\* calendar that lie in [start, end]; a week whose last session is after the
\* end of the window contributes no point.
C33_WeeklyPointsAreWeekLastSessions ==
  (Windowed /\ rs[1].period = "weekly" /\ ~obs[1].cal_failed)
    => SeqToSet(rs[1].required_dates)
         = {d \in WeekEnds : rs[1].start_date <= d /\ d <= rs[1].end_date}
\* ------------------------------------------ the calendar backend raises
\* C34: when the calendar backend raises, the required dates are the
\* fixed-weekday set of the window, every Monday-to-Friday date for daily and
\* every Friday for weekly granularity, holidays included, and the call goes
\* on to look for the missing ranges among them.
C34_CalendarFailureFallsBack ==
  (Windowed /\ obs[1].cal_failed /\ rs[1].period \in {"daily", "weekly"})
    => /\ SeqToSet(rs[1].required_dates)
            = {d \in Calendar : /\ rs[1].start_date <= d /\ d <= rs[1].end_date
                                /\ IF rs[1].period = "daily" THEN weekday(d) < 5
                                   ELSE weekday(d) = 4}
       /\ RangeDays(rs[1].missing_ranges) \cap SeqToSet(rs[1].required_dates)
            = {d \in SeqToSet(rs[1].required_dates) : d <= rs[1].market_aware_date}

\* C34 witness: the calendar raised for a daily window that holds the
\* holiday, and the holiday is among the required dates
C34_Witness ==
  /\ Windowed /\ obs[1].cal_failed /\ rs[1].period = "daily"
  /\ Holidays # {}
  /\ Holidays \subseteq SeqToSet(rs[1].required_dates)
\* ------------------------------------------ the attempts of a price fetch
Failed(outcome) == outcome # "data"

\* C35: a provider price fetch makes at most 3 attempts; an attempt is
\* followed by another only when it raised a transient I/O error or got an
\* empty answer; after the third failed attempt the fetch is over and has
\* returned None; no exception leaves fetch_data.
C35_AtMostThreeAttempts ==
  LET f == limiter.fetch
      n == Len(f.outcomes)
  IN /\ n <= 3 /\ f.attempt_number <= 3
     /\ \A i \in 1..(n - 1) : f.outcomes[i] \in {"request_exception", "io_error", "empty"}
     /\ (n = 3 /\ Failed(f.outcomes[3])) => (f.pc = "done" /\ f.returned = "none")
     /\ f.pc = "done" => f.returned \in {"none", "frame"}
     /\ (f.pc = "done" /\ Failed(f.outcomes[n])) => f.returned = "none"

\* C35 witness: three attempts failed, with a transient error and with empty
\* answers, and the fetch returned None
C35_Witness ==
  LET f == limiter.fetch
  IN /\ f.pc = "done" /\ f.returned = "none"
     /\ Len(f.outcomes) = 3
     /\ f.outcomes[1] = "io_error" /\ f.outcomes[3] = "empty"
\* ------------------------------------------------ two flushes at a time
\* the keys a run of persist_pending_data has read and not yet cleared
KeysInHand(f) ==
  IF f.pc \in {"persist", "clear"}
  THEN {f.pending_data[i].period : i \in 1..Len(f.pending_data)} \cup SeqToSet(f.processed_keys)
  ELSE {}

\* C36: the scheduled flush and a flush started by /persist-data never have
\* the same buffer key in hand (read and not yet cleared) at the same time.
C36_OneFlusherPerKey ==
  KeysInHand(fl) \cap KeysInHand(fl.manual) = {}
\* ------------------------------------------------ the order of a series
\* no two points with the same key, ascending
StrictlyAscending(df) == \A i \in 1..(Len(df) - 1) : df[i].date < df[i + 1].date

\* C37: every series in the general cache or in the buffer, and every series
\* a call returned, has no two points with the same key and is sorted
\* strictly ascending, whichever path wrote it.
C37_SeriesStrictlyAscending ==
  /\ \A k \in Periods : StrictlyAscending(cache[k]) /\ StrictlyAscending(buffer[k])
  /\ \A r \in Resolvers : StrictlyAscending(res[r].df)

\* C37 witness: a call on the durable-store path has merged the rows of the
\* store with two fetched ranges around them, written cache and buffer, and
\* returned three points
C37_Witness ==
  \E r \in Resolvers :
    /\ obs[r].done /\ obs[r].path = "db_partial"
    /\ Cardinality(obs[r].asked) = 2
    /\ Len(res[r].df) = 3
    /\ Len(cache["daily"]) = 3
    /\ Len(buffer["daily"]) = 2
\* ------------------------------------------- ranges without a session
\* C38: on the cache-partial path as on the durable-store-partial path, no
\* range passed to the provider is without a trading session.
C38_NoFetchOfSessionlessRange ==
  \A r \in Resolvers :
    OnGapPath(r) => \A rg \in obs[r].asked : schedule(rg[2], rg[3]) # {}
\* ------------------------------------------- what the cache entry keeps
\* C39: with no expiry the general cache entries only accumulate: no step of
\* a call removes a point-key from a cache entry, also when an error occurred
\* while the cached series was processed and the call fell through to the
\* durable store.
C39_CacheOnlyAccumulates ==
  [][\A k \in Periods : DateSet(cache[k]) \subseteq DateSet(cache'[k])]_vars
\* ----------------------------------------------- nothing new, nothing written
NothingObtained(o) == o.from_db = <<>> /\ o.fetched = {}
EntriesUnchanged == cache' = cache /\ buffer' = buffer
StepOf(r) == rs'[r] # rs[r]

\* C40: no step of a call whose durable-store queries and provider fetches
\* have returned nothing changes the general cache entry or the buffer entry,
\* and a save_to_redis or an _append_to_pending_save of an empty series
\* leaves every entry as it was.
C40_NothingNewNothingWritten ==
  [][/\ (StepOf(1) /\ NothingObtained(obs'[1])) => EntriesUnchanged
     /\ \A r \in Resolvers :
          (/\ StepOf(r)
           /\ rs[r].pc \in {"saving_cache", "saving_pending", "appending"}
           /\ rs[r].new_data = <<>>) => EntriesUnchanged]_vars

\* C40 witness: a call found a gap in the cache entry, got nothing from the
\* durable store and nothing from the provider, and returned; a save of an
\* empty series was refused; the entries of cache and buffer are still there
C40_Witness ==
  /\ obs[1].done /\ obs[1].path = "cache_partial"
  /\ obs[1].db_queries > 0 /\ obs[1].asked # {}
  /\ NothingObtained(obs[1])
  /\ obs[2].path = "save_to_redis" /\ obs[2].cache_writes = 0
  /\ cache["daily"] # <<>> /\ buffer["daily"] # <<>>
====
